-------------------------- MODULE SubtreeMapProofs --------------------------
(* The subtree map of MDCache is right for every tree of dirfrags. A        *)
(* dirfrag belongs to the subtree of the first root above it. The tree may  *)
(* be of any size and depth; what is said of a climb is proved by           *)
(* contradiction, at the highest dirfrag where it fails (Topmost). The      *)
(* invariant IInv says what holds between two iterations of the loops of    *)
(* try_subtree_merge, adjust_bounded_subtree_auth and                       *)
(* adjust_subtree_after_rename.                                             *)
EXTENDS TLAPS, SubtreeMap

(* Most steps are first-order reasoning about sets and functions. *)
USE ZenonT(30)

(* The dirfrags form a tree under par: as TreeAssumption says of Home.      *)
Tree(par) ==
  /\ par \in [Inodes \ {ino[Root]} -> Dirs]
  /\ \A S \in SUBSET (Dirs \ {Root}) : S # {} => \E d \in S : par[ino[d]] \notin S

(* f leads from a dirfrag up to the first member of R, as get_subtree_root  *)
(* climbs.                                                                  *)
Climbs(par, R, f) ==
  /\ f \in [Dirs -> Dirs]
  /\ \A x \in Dirs : f[x] = IF x \in R THEN x ELSE f[par[ino[x]]]

(* The climb from x ends at r: x and r are in a set closed under parents up *)
(* to r.                                                                    *)
Path(par, R, x, r) ==
  \E S \in SUBSET Dirs :
    x \in S /\ r \in S /\ \A y \in S : y # r => y \notin R /\ par[ino[y]] \in S

(* get_subtree_root with the parents and the authorities as parameters.     *)
RootIn(par, auth, d) ==
  LET up[x \in Dirs] == IF auth[x] # CDIR_AUTH_DEFAULT THEN x ELSE up[par[ino[x]]]
  IN up[d]

(* The subtree roots: dir_auth is set (CDir::is_subtree_root).              *)
Roots(auth) == {d \in Dirs : auth[d] # CDIR_AUTH_DEFAULT}

(* Every dirfrag but the one of the base inode has a parent.                *)
LEMMA ParentIsDir ==
  ASSUME NEW par, Tree(par), NEW d \in Dirs, d # Root
  PROVE  par[ino[d]] \in Dirs /\ ino[d] \in Inodes \ {ino[Root]}
BY TreeAssumption DEF Tree

(* A property of dirfrags that fails somewhere fails at one that is the     *)
(* base, or whose parent has it.                                            *)
LEMMA Topmost ==
  ASSUME NEW par, Tree(par), NEW S \in SUBSET Dirs, S # {}
  PROVE  \E d \in S : d = Root \/ par[ino[d]] \notin S
<1>1. CASE Root \in S
  BY <1>1
<1>2. CASE Root \notin S
  BY <1>2 DEF Tree
<1> QED BY <1>1, <1>2

(* The climb of get_subtree_root ends: from every dirfrag there is a path   *)
(* to a member of R, the base being one.                                    *)
LEMMA PathExists ==
  ASSUME NEW par, Tree(par), NEW R, Root \in R
  PROVE  \A x \in Dirs : \E r \in Dirs : r \in R /\ Path(par, R, x, r)
<1> DEFINE Bad == {x \in Dirs : ~ \E r \in Dirs : r \in R /\ Path(par, R, x, r)}
<1>1. SUFFICES ASSUME Bad # {} PROVE FALSE
  OBVIOUS
<1>2. Bad \in SUBSET Dirs
  OBVIOUS
<1>3. PICK m \in Bad : m = Root \/ par[ino[m]] \notin Bad
  <2> HIDE DEF Bad
  <2> QED BY <1>1, <1>2, Topmost
<1>4. m \in Dirs
  OBVIOUS
<1>5. m \notin R
  <2>1. Path(par, R, m, m)
    <3>1. {m} \in SUBSET Dirs
      BY <1>4
    <3> QED BY <3>1 DEF Path
  <2> QED BY <2>1, <1>4
<1>6. m # Root /\ par[ino[m]] \in Dirs
  BY <1>4, <1>5, ParentIsDir
<1>7. PICK r \in Dirs : r \in R /\ Path(par, R, par[ino[m]], r)
  BY <1>3, <1>6
<1>8. PICK S \in SUBSET Dirs : par[ino[m]] \in S /\ r \in S
                               /\ \A y \in S : y # r => y \notin R /\ par[ino[y]] \in S
  BY <1>7 DEF Path
<1>9. Path(par, R, m, r)
  <2>1. S \cup {m} \in SUBSET Dirs
    BY <1>4
  <2>2. \A y \in S \cup {m} : y # r => y \notin R /\ par[ino[y]] \in S \cup {m}
    BY <1>5, <1>8
  <2>3. m \in S \cup {m} /\ r \in S \cup {m}
    BY <1>8
  <2> QED BY <2>1, <2>2, <2>3 DEF Path
<1> QED BY <1>9, <1>7

(* The climb has one end.                                                   *)
LEMMA PathUnique ==
  ASSUME NEW par, Tree(par), NEW R, Root \in R, NEW x \in Dirs,
         NEW r \in R, NEW s \in R, Path(par, R, x, r), Path(par, R, x, s)
  PROVE  r = s
<1>1. PICK S \in SUBSET Dirs : x \in S /\ r \in S
                               /\ \A y \in S : y # r => y \notin R /\ par[ino[y]] \in S
  BY DEF Path
<1>2. PICK T \in SUBSET Dirs : x \in T /\ s \in T
                               /\ \A y \in T : y # s => y \notin R /\ par[ino[y]] \in T
  BY DEF Path
<1>3. S \cap T \in SUBSET Dirs /\ S \cap T # {}
  BY <1>1, <1>2
<1>4. PICK m \in S \cap T : m = Root \/ par[ino[m]] \notin S \cap T
  BY <1>3, Topmost
<1> QED BY <1>1, <1>2, <1>4

(* A function that follows the climb exists, so that the recursive          *)
(* definition of get_subtree_root means what it says.                       *)
LEMMA ClimbExists ==
  ASSUME NEW par, Tree(par), NEW R, Root \in R
  PROVE  \E f : f = [x \in Dirs |-> IF x \in R THEN x ELSE f[par[ino[x]]]]
<1> DEFINE f == [x \in Dirs |-> CHOOSE r \in Dirs : r \in R /\ Path(par, R, x, r)]
<1>1. \A x \in Dirs : f[x] \in Dirs /\ f[x] \in R /\ Path(par, R, x, f[x])
  BY PathExists
<1>2. \A x \in Dirs : f[x] = IF x \in R THEN x ELSE f[par[ino[x]]]
  <2> SUFFICES ASSUME NEW x \in Dirs
               PROVE  f[x] = IF x \in R THEN x ELSE f[par[ino[x]]]
    OBVIOUS
  <2>0. f[x] \in R /\ Path(par, R, x, f[x])
    BY <1>1
  <2> HIDE DEF f
  <2>1. CASE x \in R
    <3>1. Path(par, R, x, x)
      <4>1. {x} \in SUBSET Dirs
        OBVIOUS
      <4> QED BY <4>1 DEF Path
    <3>2. f[x] = x
      BY <2>0, <2>1, <3>1, PathUnique
    <3> QED BY <2>1, <3>2
  <2>2. CASE x \notin R
    <3>1. par[ino[x]] \in Dirs
      BY <2>2, ParentIsDir
    <3>2. Path(par, R, par[ino[x]], f[x])
      BY <2>0, <2>2 DEF Path
    <3>3. f[par[ino[x]]] = f[x]
      BY <1>1, <2>0, <3>1, <3>2, PathUnique
    <3> QED BY <2>2, <3>3
  <2> QED BY <2>1, <2>2
<1>3. f = [x \in Dirs |-> IF x \in R THEN x ELSE f[par[ino[x]]]]
  <2>1. f = [x \in Dirs |-> f[x]]
    BY SMTT(30)
  <2> HIDE DEF f
  <2> QED BY <1>2, <2>1
<1> HIDE DEF f
<1> QED BY <1>3

(* Climbing from a dirfrag to the first one in R ends at one in R.          *)
LEMMA ClimbEnds ==
  ASSUME NEW par, Tree(par), NEW R, Root \in R, NEW f, Climbs(par, R, f)
  PROVE  \A x \in Dirs : f[x] \in R /\ f[f[x]] = f[x]
<1> DEFINE Bad == {x \in Dirs : f[x] \notin R}
<1>1. Bad = {}
  <2>1. SUFFICES ASSUME Bad # {} PROVE FALSE
    OBVIOUS
  <2>2. PICK m \in Bad : m = Root \/ par[ino[m]] \notin Bad
    <3>1. Bad \in SUBSET Dirs
      OBVIOUS
    <3> HIDE DEF Bad
    <3> QED BY <2>1, <3>1, Topmost
  <2> QED BY <2>2, ParentIsDir DEF Climbs
<1> QED BY <1>1 DEF Climbs

(* Two functions that follow the climb agree: get_subtree_root depends on   *)
(* nothing but the parents and the roots.                                   *)
LEMMA ClimbUnique ==
  ASSUME NEW par, Tree(par), NEW R, Root \in R,
         NEW f, Climbs(par, R, f),
         NEW g, \A x \in Dirs : g[x] = IF x \in R THEN x ELSE g[par[ino[x]]]
  PROVE  \A x \in Dirs : f[x] = g[x]
<1> DEFINE Bad == {x \in Dirs : f[x] # g[x]}
<1>1. SUFFICES ASSUME Bad # {} PROVE FALSE
  OBVIOUS
<1>2. PICK m \in Bad : m = Root \/ par[ino[m]] \notin Bad
  <2>1. Bad \in SUBSET Dirs
    OBVIOUS
  <2> HIDE DEF Bad
  <2> QED BY <1>1, <2>1, Topmost
<1> QED BY <1>2, ParentIsDir DEF Climbs

(* get_subtree_root climbs to the first dirfrag with a dir_auth of its own. *)
LEMMA RootInClimbs ==
  ASSUME NEW par, Tree(par), NEW auth, Root \in Roots(auth)
  PROVE  Climbs(par, Roots(auth), [d \in Dirs |-> RootIn(par, auth, d)])
<1> DEFINE Eq(f) == f = [x \in Dirs |-> IF auth[x] # CDIR_AUTH_DEFAULT THEN x ELSE f[par[ino[x]]]]
           up == CHOOSE f : Eq(f)
<1>1. PICK g : g = [x \in Dirs |-> IF x \in Roots(auth) THEN x ELSE g[par[ino[x]]]]
  BY ClimbExists
<1>2. [x \in Dirs |-> IF x \in Roots(auth) THEN x ELSE g[par[ino[x]]]]
        = [x \in Dirs |-> IF auth[x] # CDIR_AUTH_DEFAULT THEN x ELSE g[par[ino[x]]]]
  BY DEF Roots
<1>3. Eq(g)
  BY <1>1, <1>2
<1>4. Eq(up)
  <2> HIDE DEF Eq
  <2> QED BY <1>3
<1>5. \A d \in Dirs : RootIn(par, auth, d) = up[d]
  BY DEF RootIn
<1>6. \A x \in Dirs : up[x] = IF x \in Roots(auth) THEN x ELSE up[par[ino[x]]]
  <2> HIDE DEF up
  <2> QED BY <1>4 DEF Roots
<1> HIDE DEF up
<1>7. \A x \in Dirs : up[x] \in Dirs
  <2> DEFINE Bad == {x \in Dirs : up[x] \notin Dirs}
  <2>1. SUFFICES ASSUME Bad # {} PROVE FALSE
    OBVIOUS
  <2>2. PICK m \in Bad : m = Root \/ par[ino[m]] \notin Bad
    <3>1. Bad \in SUBSET Dirs
      OBVIOUS
    <3> HIDE DEF Bad
    <3> QED BY <2>1, <3>1, Topmost
  <2> QED BY <2>2, <1>6, ParentIsDir
<1> QED BY <1>5, <1>6, <1>7, ParentIsDir DEF Climbs

(* ... as the model writes it.                                              *)
LEMMA RootIsRootIn ==
  \A st, d : get_subtree_root(st, d) = RootIn(parent, st.auth, d)
BY DEF get_subtree_root, RootIn, is_subtree_root, get_parent_dir
-----------------------------------------------------------------------------
(* The parent of a subtree root belongs to another subtree.                 *)
LEMMA ParentElsewhere ==
  ASSUME NEW par, Tree(par), NEW R, Root \in R, NEW f, Climbs(par, R, f),
         NEW d \in Dirs, d \in R, d # Root
  PROVE  f[par[ino[d]]] # d
<1> DEFINE S == {x \in Dirs : f[x] = d}
<1>1. SUFFICES ASSUME f[par[ino[d]]] = d PROVE FALSE
  OBVIOUS
<1>2. d \in S
  BY DEF Climbs
<1>3. S \in SUBSET Dirs /\ Root \notin S
  BY TreeAssumption DEF Climbs
<1>4. \A x \in S : par[ino[x]] \in S
  BY <1>1, <1>3, ParentIsDir DEF Climbs
<1> HIDE DEF S
<1> QED BY <1>2, <1>3, <1>4, Topmost

(* Without the root d, its subtree belongs to the one above it.             *)
LEMMA ClimbWithout ==
  ASSUME NEW par, Tree(par), NEW R, Root \in R, NEW f, Climbs(par, R, f),
         NEW d \in Dirs, d \in R, d # Root, NEW g, Climbs(par, R \ {d}, g)
  PROVE  \A x \in Dirs : g[x] = IF f[x] = d THEN f[par[ino[d]]] ELSE f[x]
<1> DEFINE h == [x \in Dirs |-> IF f[x] = d THEN f[par[ino[d]]] ELSE f[x]]
<1>1. \A x \in Dirs : h[x] = IF f[x] = d THEN f[par[ino[d]]] ELSE f[x]
  OBVIOUS
<1> HIDE DEF h
<1>2. f[par[ino[d]]] # d
  BY ParentElsewhere
<1>3. ASSUME NEW x \in Dirs PROVE h[x] = IF x \in R \ {d} THEN x ELSE h[par[ino[x]]]
  <2>1. CASE x \in R \ {d}
    BY <2>1, <1>1 DEF Climbs
  <2>2. CASE x = d
    BY <2>2, <1>1, <1>2, ParentIsDir DEF Climbs
  <2>3. CASE x \notin R
    <3>1. par[ino[x]] \in Dirs
      BY <2>3, ParentIsDir
    <3> QED BY <2>3, <3>1, <1>1 DEF Climbs
  <2> QED BY <2>1, <2>2, <2>3
<1>4. \A x \in Dirs : g[x] = h[x]
  <2>1. Root \in R \ {d}
    OBVIOUS
  <2> QED BY <1>3, <2>1, ClimbUnique, SMTT(30)
<1> QED BY <1>1, <1>4

(* g is what f becomes when d is made a root.                               *)
Cut(par, f, g, d) ==
  /\ \A x \in Dirs : f[x] = IF g[x] = d THEN f[d] ELSE g[x]
  /\ g[par[ino[d]]] = f[d] /\ f[d] # d /\ f[d] = f[par[ino[d]]]

(* With the new root d, its subtree is cut out of the one that held it.     *)
LEMMA ClimbWith ==
  ASSUME NEW par, Tree(par), NEW R, Root \in R, NEW f, Climbs(par, R, f),
         NEW d \in Dirs, d \notin R, NEW g, Climbs(par, R \cup {d}, g)
  PROVE  Cut(par, f, g, d)
<1>1. (R \cup {d}) \ {d} = R
  OBVIOUS
<1>2. d # Root
  OBVIOUS
<1>3. \A x \in Dirs : f[x] = IF g[x] = d THEN g[par[ino[d]]] ELSE g[x]
  <2>1. Root \in R \cup {d} /\ d \in R \cup {d}
    OBVIOUS
  <2>2. Climbs(par, (R \cup {d}) \ {d}, f)
    BY <1>1
  <2> QED BY <1>2, <2>1, <2>2, ClimbWithout, SMTT(30)
<1>4. f[d] \in R
  BY ClimbEnds
<1>5. g[d] = d
  BY DEF Climbs
<1> QED BY <1>2, <1>3, <1>4, <1>5, ParentIsDir DEF Climbs, Cut

(* The bounds in sub are the roots whose parents belong to the subtree; but *)
(* those in X are still bounds of o.                                        *)
FitsBut(par, R, f, sub, X, o) ==
  /\ DOMAIN sub = R
  /\ \A r \in R : sub[r] = {b \in R \ {Root} : r = IF b \in X THEN o ELSE f[par[ino[b]]]}

(* The map is right: the bounds of a root are the roots right beneath its   *)
(* subtree.                                                                 *)
Fits(par, R, f, sub) == FitsBut(par, R, f, sub, {}, Root)

(* What adjust_subtree_auth does to the map when d becomes a root.          *)
Splits(par, R, f, g, sub, new, d) ==
  /\ DOMAIN new = R \cup {d}
  /\ new[d] = {b \in sub[f[d]] : g[par[ino[b]]] = d}
  /\ new[f[d]] = (sub[f[d]] \ new[d]) \cup {d}
  /\ \A r \in R : r # f[d] => new[r] = sub[r]

(* adjust_subtree_auth moves the right bounds to a new root.                *)
LEMMA SplitFits ==
  ASSUME NEW par, Tree(par), NEW R \in SUBSET Dirs, Root \in R, NEW f, Climbs(par, R, f),
         NEW d \in Dirs, d \notin R, NEW g, Climbs(par, R \cup {d}, g),
         NEW sub, Fits(par, R, f, sub), NEW new, Splits(par, R, f, g, sub, new, d)
  PROVE  Fits(par, R \cup {d}, g, new)
<1>0. Cut(par, f, g, d)
  BY ClimbWith
<1>1. /\ \A x \in Dirs : f[x] = IF g[x] = d THEN f[d] ELSE g[x]
      /\ g[par[ino[d]]] = f[d] /\ f[d] # d /\ f[d] = f[par[ino[d]]]
  BY <1>0 DEF Cut
<1>2. f[d] \in R
  BY ClimbEnds
<1>3. \A b \in R \ {Root} : par[ino[b]] \in Dirs
  BY ParentIsDir
<1>4. d # Root
  OBVIOUS
<1>5. ASSUME NEW r \in R \cup {d}
      PROVE  new[r] = {b \in (R \cup {d}) \ {Root} : g[par[ino[b]]] = r}
  <2>1. CASE r = d
    BY <2>1, <1>1, <1>2, <1>3, SMTT(30) DEF Fits, FitsBut, Splits
  <2>2. CASE r = f[d]
    BY <2>2, <1>1, <1>2, <1>3, <1>4, SMTT(30) DEF Fits, FitsBut, Splits
  <2>3. CASE r # d /\ r # f[d]
    <3>1. new[r] = {b \in R \ {Root} : f[par[ino[b]]] = r}
      BY <2>3, SMTT(30) DEF Fits, FitsBut, Splits
    <3> QED BY <2>3, <3>1, <1>1, <1>3
  <2> QED BY <2>1, <2>2, <2>3
<1> QED BY <1>5 DEF Fits, FitsBut, Splits

(* What try_subtree_merge_at does to the map when d is a root no more.      *)
Joins(R, up, sub, new, d) ==
  /\ DOMAIN new = R \ {d}
  /\ new[up] = (sub[up] \ {d}) \cup sub[d]
  /\ \A r \in R \ {d} : r # up => new[r] = sub[r]

(* try_subtree_merge_at gives the bounds of a root to the one above it.     *)
LEMMA MergeFits ==
  ASSUME NEW par, Tree(par), NEW R \in SUBSET Dirs, Root \in R, NEW f, Climbs(par, R, f),
         NEW d \in R, d # Root, NEW g, Climbs(par, R \ {d}, g),
         NEW X, d \notin X, NEW o, X = {} \/ o # d, NEW sub,
         FitsBut(par, R, f, sub, X, o), NEW new, Joins(R, f[par[ino[d]]], sub, new, d)
  PROVE  FitsBut(par, R \ {d}, g, new, X, o)
<1>1. \A x \in Dirs : g[x] = IF f[x] = d THEN f[par[ino[d]]] ELSE f[x]
  BY ClimbWithout, SMTT(30)
<1>2. f[par[ino[d]]] # d /\ f[par[ino[d]]] \in R
  BY ParentElsewhere, ParentIsDir, ClimbEnds, SMTT(30)
<1>3. \A b \in R \ {Root} : par[ino[b]] \in Dirs
  BY ParentIsDir
<1>4. ASSUME NEW r \in R \ {d}
      PROVE  new[r] = {b \in (R \ {d}) \ {Root} : r = IF b \in X THEN o ELSE g[par[ino[b]]]}
  <2>1. CASE r = f[par[ino[d]]]
    BY <2>1, <1>1, <1>2, <1>3, SMTT(30) DEF FitsBut, Joins
  <2>2. CASE r # f[par[ino[d]]]
    BY <2>2, <1>1, <1>2, <1>3, SMTT(30) DEF FitsBut, Joins
  <2> QED BY <2>1, <2>2
<1> QED BY <1>4 DEF FitsBut, Joins
-----------------------------------------------------------------------------
(* Beneath with the parents as a parameter.                                 *)
BeneathIn(par, d, a) ==
  LET up[x \in Dirs] == x = a \/ (~is_base(x) /\ up[par[ino[x]]]) IN up[d]

(* It is Beneath for the parents of the state.                              *)
LEMMA BeneathIsBeneathIn == \A d, a : Beneath(d, a) = BeneathIn(parent, d, a)
BY DEF Beneath, BeneathIn, get_parent_dir

(* Beneath looks one dirfrag up at a time.                                  *)
LEMMA BeneathUnfold ==
  ASSUME NEW par, Tree(par), NEW a \in Dirs
  PROVE  \A x \in Dirs : BeneathIn(par, x, a) <=>
           (x = a \/ (x # Root /\ BeneathIn(par, par[ino[x]], a)))
<1> DEFINE Eq(f) == f = [x \in Dirs |-> x = a \/ (~is_base(x) /\ f[par[ino[x]]])]
           up == CHOOSE f : Eq(f)
           g == [x \in Dirs |-> Path(par, {Root}, x, a)]
<1>1. ASSUME NEW x \in Dirs
      PROVE  Path(par, {Root}, x, a) <=> (x = a \/ (x # Root /\ Path(par, {Root}, par[ino[x]], a)))
  <2>1. Path(par, {Root}, a, a)
    <3>1. {a} \in SUBSET Dirs
      OBVIOUS
    <3> QED BY <3>1 DEF Path
  <2>2. ASSUME x # a, Path(par, {Root}, x, a) PROVE x # Root /\ Path(par, {Root}, par[ino[x]], a)
    BY <2>2 DEF Path
  <2>3. ASSUME x # Root, Path(par, {Root}, par[ino[x]], a) PROVE Path(par, {Root}, x, a)
    <3>1. PICK S \in SUBSET Dirs : par[ino[x]] \in S /\ a \in S
                 /\ \A y \in S : y # a => y \notin {Root} /\ par[ino[y]] \in S
      BY <2>3 DEF Path
    <3>2. S \cup {x} \in SUBSET Dirs
      OBVIOUS
    <3>3. \A y \in S \cup {x} : y # a => y \notin {Root} /\ par[ino[y]] \in S \cup {x}
      BY <2>3, <3>1
    <3> QED BY <3>1, <3>2, <3>3 DEF Path
  <2> QED BY <2>1, <2>2, <2>3
<1>0. \A x \in Dirs : g[x] = Path(par, {Root}, x, a)
  BY Zenon
<1>2. ASSUME NEW x \in Dirs PROVE g[x] = (x = a \/ (~is_base(x) /\ g[par[ino[x]]]))
  <2> HIDE DEF g
  <2>1. Path(par, {Root}, x, a) = (x = a \/ (x # Root /\ Path(par, {Root}, par[ino[x]], a)))
    BY <1>1, Zenon DEF Path
  <2>2. x # Root => g[par[ino[x]]] = Path(par, {Root}, par[ino[x]], a)
    BY <1>0, ParentIsDir, Zenon
  <2>3. CASE x = Root
    BY <2>1, <2>3, <1>0, Zenon DEF is_base
  <2>4. CASE x # Root
    BY <2>1, <2>2, <2>4, <1>0, Zenon DEF is_base
  <2> QED BY <2>3, <2>4
<1>3. Eq(g)
  <2>1. g = [x \in Dirs |-> g[x]]
    OBVIOUS
  <2> HIDE DEF g
  <2> QED BY <1>2, <2>1, Zenon
<1>4. Eq(up)
  <2> HIDE DEF Eq, g
  <2> QED BY <1>3
<1>5. \A d : BeneathIn(par, d, a) = up[d]
  BY DEF BeneathIn
<1> HIDE DEF up
<1> QED BY <1>4, <1>5, Zenon DEF is_base

(* A dirfrag lies beneath itself: contains() of a directory holds of it.    *)
LEMMA BeneathSelf ==
  ASSUME NEW par, Tree(par), NEW a \in Dirs
  PROVE  BeneathIn(par, a, a)
BY BeneathUnfold

(* Lying beneath is transitive.                                             *)
LEMMA BeneathTransitive ==
  ASSUME NEW par, Tree(par), NEW a \in Dirs, NEW b \in Dirs, NEW x \in Dirs,
         BeneathIn(par, x, a), BeneathIn(par, a, b)
  PROVE  BeneathIn(par, x, b)
<1> DEFINE Bad == {y \in Dirs : BeneathIn(par, y, a) /\ ~BeneathIn(par, y, b)}
<1>1. SUFFICES ASSUME Bad # {} PROVE FALSE
  OBVIOUS
<1>2. PICK m \in Bad : m = Root \/ par[ino[m]] \notin Bad
  <2>1. Bad \in SUBSET Dirs
    OBVIOUS
  <2> HIDE DEF Bad
  <2> QED BY <1>1, <2>1, Topmost
<1>3. m # a /\ m # Root /\ BeneathIn(par, par[ino[m]], a)
  BY <1>2, BeneathUnfold
<1>4. ~BeneathIn(par, par[ino[m]], b)
  BY <1>2, <1>3, BeneathUnfold
<1> QED BY <1>2, <1>3, <1>4, ParentIsDir

(* What lies beneath a, other than a, has its parent beneath a.             *)
LEMMA BeneathParent ==
  ASSUME NEW par, Tree(par), NEW a \in Dirs, NEW x \in Dirs, x # a
  PROVE  BeneathIn(par, x, a) <=> (x # Root /\ BeneathIn(par, par[ino[x]], a))
BY BeneathUnfold

(* No two dirfrags lie beneath each other.                                  *)
LEMMA BeneathAntisymmetric ==
  ASSUME NEW par, Tree(par), NEW a \in Dirs, NEW b \in Dirs,
         BeneathIn(par, a, b), BeneathIn(par, b, a)
  PROVE  a = b
<1> DEFINE S == {x \in Dirs : BeneathIn(par, x, a) /\ BeneathIn(par, a, x)}
<1>1. SUFFICES ASSUME a # b PROVE FALSE
  OBVIOUS
<1>2. a \in S /\ b \in S
  BY BeneathSelf
<1>3. ASSUME NEW x \in S PROVE x # Root /\ par[ino[x]] \in S
  <2>1. PICK w \in S : w # x
    BY <1>1, <1>2
  <2>2. BeneathIn(par, x, w)
    BY <2>1, BeneathTransitive
  <2>3. x # Root /\ BeneathIn(par, par[ino[x]], w)
    BY <2>1, <2>2, BeneathParent
  <2>4. par[ino[x]] \in Dirs
    BY <2>3, ParentIsDir
  <2>5. BeneathIn(par, par[ino[x]], a)
    BY <2>1, <2>3, <2>4, BeneathTransitive
  <2>6. BeneathIn(par, x, par[ino[x]])
    BY <2>3, <2>4, BeneathUnfold, BeneathSelf
  <2>7. BeneathIn(par, a, par[ino[x]])
    BY <2>4, <2>6, BeneathTransitive
  <2> QED BY <2>3, <2>4, <2>5, <2>7
<1>4. S \in SUBSET Dirs
  OBVIOUS
<1> HIDE DEF S
<1> QED BY <1>2, <1>3, <1>4, Topmost

(* Of two dirfrags above the same one, one lies beneath the other.          *)
LEMMA BeneathBoth ==
  ASSUME NEW par, Tree(par), NEW a \in Dirs, NEW b \in Dirs, NEW x \in Dirs,
         BeneathIn(par, x, a), BeneathIn(par, x, b)
  PROVE  BeneathIn(par, a, b) \/ BeneathIn(par, b, a)
<1> DEFINE Bad == {y \in Dirs : BeneathIn(par, y, a) /\ BeneathIn(par, y, b)}
<1>1. PICK m \in Bad : m = Root \/ par[ino[m]] \notin Bad
  <2>1. Bad \in SUBSET Dirs /\ Bad # {}
    OBVIOUS
  <2> HIDE DEF Bad
  <2> QED BY <2>1, Topmost
<1>2. CASE m = a \/ m = b
  BY <1>1, <1>2
<1>3. CASE m # a /\ m # b
  <2>1. m # Root /\ BeneathIn(par, par[ino[m]], a) /\ BeneathIn(par, par[ino[m]], b)
    BY <1>1, <1>3, BeneathParent
  <2> QED BY <1>1, <2>1, ParentIsDir
<1> QED BY <1>2, <1>3

(* A dirfrag lies beneath its subtree root.                                 *)
LEMMA BeneathRoot ==
  ASSUME NEW par, Tree(par), NEW R, Root \in R, NEW f, Climbs(par, R, f)
  PROVE  \A x \in Dirs : BeneathIn(par, x, f[x])
<1> DEFINE Bad == {y \in Dirs : ~BeneathIn(par, y, f[y])}
<1>1. SUFFICES ASSUME Bad # {} PROVE FALSE
  OBVIOUS
<1>2. PICK m \in Bad : m = Root \/ par[ino[m]] \notin Bad
  <2>1. Bad \in SUBSET Dirs
    OBVIOUS
  <2> HIDE DEF Bad
  <2> QED BY <1>1, <2>1, Topmost
<1>3. m \notin R
  BY <1>2, BeneathSelf DEF Climbs
<1>4. m # Root /\ par[ino[m]] \in Dirs /\ f[m] = f[par[ino[m]]] /\ f[m] \in Dirs
  BY <1>3, ParentIsDir DEF Climbs
<1>5. BeneathIn(par, par[ino[m]], f[m])
  BY <1>2, <1>4
<1> QED BY <1>2, <1>4, <1>5, BeneathUnfold

(* Beneath a root, the subtree root is no higher than it.                   *)
LEMMA RootBeneath ==
  ASSUME NEW par, Tree(par), NEW R, Root \in R, NEW f, Climbs(par, R, f),
         NEW a \in Dirs, a \in R, NEW x \in Dirs, BeneathIn(par, x, a)
  PROVE  BeneathIn(par, f[x], a)
<1> DEFINE Bad == {y \in Dirs : BeneathIn(par, y, a) /\ ~BeneathIn(par, f[y], a)}
<1>1. SUFFICES ASSUME Bad # {} PROVE FALSE
  OBVIOUS
<1>2. PICK m \in Bad : m = Root \/ par[ino[m]] \notin Bad
  <2>1. Bad \in SUBSET Dirs
    OBVIOUS
  <2> HIDE DEF Bad
  <2> QED BY <1>1, <2>1, Topmost
<1>3. m \notin R
  BY <1>2 DEF Climbs
<1>4. m # Root /\ m # a /\ par[ino[m]] \in Dirs /\ f[m] = f[par[ino[m]]]
  BY <1>3, ParentIsDir DEF Climbs
<1>5. BeneathIn(par, par[ino[m]], a)
  BY <1>2, <1>4, BeneathParent
<1> QED BY <1>2, <1>4, <1>5

(* What lies beneath a root without belonging to it lies beneath a bound.   *)
LEMMA BeneathBound ==
  ASSUME NEW par, Tree(par), NEW R, Root \in R, NEW f, Climbs(par, R, f),
         NEW r \in Dirs, r \in R, NEW x \in Dirs, BeneathIn(par, x, r), f[x] # r
  PROVE  \E t \in Dirs : t \in R /\ t # Root /\ f[par[ino[t]]] = r /\ BeneathIn(par, x, t)
<1> DEFINE Found(y) == \E t \in Dirs : t \in R /\ t # Root /\ f[par[ino[t]]] = r /\ BeneathIn(par, y, t)
           Bad == {y \in Dirs : BeneathIn(par, y, r) /\ f[y] # r /\ ~Found(y)}
<1>1. SUFFICES ASSUME Bad # {} PROVE FALSE
  OBVIOUS
<1>2. PICK m \in Bad : m = Root \/ par[ino[m]] \notin Bad
  <2>1. Bad \in SUBSET Dirs
    OBVIOUS
  <2> HIDE DEF Bad
  <2> QED BY <1>1, <2>1, Topmost
<1>3. m # r
  BY <1>2 DEF Climbs
<1>4. m # Root /\ BeneathIn(par, par[ino[m]], r) /\ par[ino[m]] \in Dirs
  BY <1>2, <1>3, BeneathParent, ParentIsDir, SMTT(30)
<1>5. CASE f[par[ino[m]]] = r
  <2>1. m \in R
    BY <1>2, <1>5 DEF Climbs
  <2>2. BeneathIn(par, m, m)
    BY BeneathSelf
  <2> QED BY <1>2, <1>4, <1>5, <2>1, <2>2
<1>6. CASE f[par[ino[m]]] # r
  <2>1. Found(par[ino[m]])
    BY <1>2, <1>4, <1>6
  <2>2. PICK t \in Dirs : t \in R /\ t # Root /\ f[par[ino[t]]] = r /\ BeneathIn(par, par[ino[m]], t)
    BY <2>1
  <2>3. BeneathIn(par, m, t)
    BY <1>4, <2>2, BeneathUnfold
  <2> QED BY <1>2, <2>2, <2>3
<1> QED BY <1>5, <1>6
-----------------------------------------------------------------------------
(* The subtree roots of the state, the root of each dirfrag, and the order  *)
(* of the tree.                                                             *)
R == Roots(dir_auth)
Top == [d \in Dirs |-> RootIn(parent, dir_auth, d)]
Under(x, a) == BeneathIn(parent, x, a)

(* The operations in progress, with what their loops remember.              *)
Ops ==
  {idle}
    \cup [name : {"merge"}, todo : SUBSET Dirs]
    \cup [name : {"bounds", "swallow", "strays", "verify"}, dir : Dirs,
          bounds : SUBSET Dirs, todo : SUBSET Dirs, auth : Unambiguous,
          oldauth : Auths, bound : Dirs, copy : SUBSET Dirs]
    \cup [name : {"rename"}, olddir : Dirs, newdir : Dirs, roots : SUBSET Dirs,
          nested : SUBSET Dirs]

(* The types of the variables. The parents of cached dirfrags are cached,   *)
(* and so are the roots (trim_dirfrag).                                     *)
TypeOK ==
  /\ cached \in SUBSET Dirs /\ Root \in cached
  /\ Tree(parent)
  /\ \A d \in cached \ {Root} : parent[ino[d]] \in cached
  /\ dir_auth \in [Dirs -> Auths \cup {CDIR_AUTH_DEFAULT}]
  /\ Root \in R /\ R \subseteq cached
  /\ op \in Ops

(* Who had the authority when the operation in progress started.            *)
Kept(x) == before[x] = dir_auth[Top[x]]

(* try_subtree_merge has left every authority as it was.                    *)
MergeInv == op.todo \subseteq R \ {Root} /\ before = [x \in cached |-> dir_auth[Top[x]]]

(* The region adjust_bounded_subtree_auth is asked to change.               *)
Inside(x) == Under(x, op.dir) /\ \A b \in op.bounds : ~Under(x, b)

(* What adjust_bounded_subtree_auth was asked for stays in place while its  *)
(* loops run: dir has the new authority, the bounds lie beneath it and      *)
(* apart, and nothing inside is pinned as an export bound.                  *)
Asked ==
  /\ op.dir \in R /\ op.bounds \subseteq cached \ {op.dir}
  /\ \A b \in op.bounds : Under(b, op.dir)
  /\ \A b, c \in op.bounds : b # c => ~Under(b, c)
  /\ dir_auth[op.dir] = op.auth
  /\ \A x \in cached : Inside(x) => x \notin exportbound

(* The requested bounds that are bounds already.                            *)
Placed ==
  CASE op.name = "bounds" -> op.bounds \ op.todo
    [] op.name = "swallow" -> (op.bounds \ op.todo) \ {op.bound}
    [] OTHER -> op.bounds

(* The loops of adjust_bounded_subtree_auth: which requested bounds are     *)
(* bounds of dir already, where an intervening subtree is being swallowed,  *)
(* and what of the strays is left.                                          *)
BoundedInv ==
  /\ Asked
  /\ Placed \subseteq subtrees[op.dir]
  /\ op.name \in {"bounds", "swallow"} => op.todo \subseteq op.bounds
  /\ op.name = "swallow" =>
       op.bound \in (op.bounds \ op.todo) \cap R /\ Top[parent[ino[op.bound]]] # op.dir
  /\ op.name = "strays" => op.todo \subseteq subtrees[op.dir]
                           /\ \A s \in op.copy \ op.todo : s \in op.bounds \/ s \notin R
  /\ op.name = "verify" => subtrees[op.dir] = op.bounds

(* The requested bounds the first loop has not reached.                     *)
Open == IF op.name \in {"bounds", "swallow"} THEN op.todo ELSE {}

(* Two bounds or more were requested.                                       *)
Many == \E b, c \in op.bounds : b # c

(* Who has the authority while the loops of adjust_bounded_subtree_auth     *)
(* run. A bound not reached yet may have lost its authority to dir only if  *)
(* dir held it, or, with two bounds, if the subtree swallowed for another   *)
(* bound held both.                                                         *)
AskedAuthority ==
  \A x \in cached :
    /\ ~Under(x, op.dir) => Kept(x)
    /\ \A b \in op.bounds : Under(x, b) =>
         IF b \in Open
         THEN IF Top[x] = op.dir THEN before[x] = op.oldauth \/ Many ELSE Kept(x)
         ELSE Kept(x) \/ (Many /\ dir_auth[Top[x]] = op.oldauth)

(* x came with a nested dirfrag that adjust_subtree_after_rename has not    *)
(* handled yet.                                                             *)
Waits(x) == \E d \in op.nested : Under(x, d) /\ Top[x] = Top[d]

(* The loops of adjust_subtree_after_rename: the map is right but for the   *)
(* roots X that are still listed as bounds of the old subtree, and what     *)
(* waits for the second loop had the authority of the old parent.           *)
RenameInv ==
  /\ op.olddir \in cached /\ op.newdir \in cached /\ op.roots \subseteq R \ {Root}
  /\ op.nested \subseteq cached \ R
  /\ \A d \in op.roots \cup op.nested :
       d # Root /\ parent[ino[d]] = op.newdir /\ ~Under(op.olddir, d) /\ ~Under(op.newdir, d)
  /\ \E X \in SUBSET (R \ {Root}) :
       /\ FitsBut(parent, R, Top, subtrees, X, Top[op.olddir])
       /\ \A b \in X : Top[parent[ino[b]]] = Top[op.newdir]
       /\ op.nested # {} \/ X \subseteq op.roots
       /\ Top[op.olddir] # Top[op.newdir] => op.roots \subseteq X
  /\ before = [x \in cached |-> before[x]]
  /\ \A x \in cached : IF Waits(x) THEN before[x] = dir_auth[Top[op.olddir]] ELSE Kept(x)

(* The inductive invariant.                                                 *)
IInv ==
  /\ TypeOK
  /\ op.name # "rename" => Fits(parent, R, Top, subtrees)
  /\ op.name = "merge" => MergeInv
  /\ op.name \in {"bounds", "swallow", "strays", "verify"} => BoundedInv /\ AskedAuthority
  /\ op.name = "rename" => RenameInv
-----------------------------------------------------------------------------
(* The two primitives of the map, adjust_subtree_auth and                   *)
(* try_subtree_merge_at.                                                    *)
Tops(auth) == [x \in Dirs |-> RootIn(parent, auth, x)]

(* A record with the authorities and the map, as the primitives take and    *)
(* return it.                                                               *)
Shape(st) ==
  /\ st = [auth |-> st.auth, sub |-> st.sub]
  /\ st.auth \in [Dirs -> Auths \cup {CDIR_AUTH_DEFAULT}]
  /\ Root \in Roots(st.auth)

(* A record whose map is right, but for the roots X still listed under o.   *)
Good(st, X, o) ==
  Shape(st) /\ FitsBut(parent, Roots(st.auth), Tops(st.auth), st.sub, X, o)

(* What adjust_subtree_auth does to the authorities and to the roots.       *)
Adjusted(st, n, d, a) ==
  /\ n.auth = [st.auth EXCEPT ![d] = a]
  /\ Roots(n.auth) = Roots(st.auth) \cup {d}
  /\ IF d \in Roots(st.auth) THEN Tops(n.auth) = Tops(st.auth)
     ELSE Cut(parent, Tops(st.auth), Tops(n.auth), d)

(* What try_subtree_merge_at does when it merges d into the subtree above.  *)
Merged(st, n, d) ==
  LET up == Tops(st.auth)[parent[ino[d]]] IN
  /\ d # Root /\ up # d /\ up \in Roots(st.auth) /\ st.auth[up] = st.auth[d]
  /\ n.auth = [st.auth EXCEPT ![d] = CDIR_AUTH_DEFAULT]
  /\ Roots(n.auth) = Roots(st.auth) \ {d}
  /\ n.sub = [r \in DOMAIN st.sub \ {d} |->
                IF r = up THEN (st.sub[up] \ {d}) \cup st.sub[d] ELSE st.sub[r]]
  /\ \A x \in Dirs : Tops(n.auth)[x] = IF Tops(st.auth)[x] = d THEN up ELSE Tops(st.auth)[x]

(* An authority that is set is not CDIR_AUTH_DEFAULT.                       *)
LEMMA AuthIsNoDefault ==
  /\ CDIR_AUTH_DEFAULT \notin Auths
  /\ \A a \in Unambiguous : a \in Auths /\ a[2] = CDIR_AUTH_UNKNOWN
BY TreeAssumption, SMTT(30) DEF CDIR_AUTH_DEFAULT, CDIR_AUTH_UNKNOWN, Auths, Unambiguous

(* The roots of the dirfrags are found by climbing.                         *)
LEMMA TopsClimb ==
  ASSUME Tree(parent), NEW auth, Root \in Roots(auth)
  PROVE  Climbs(parent, Roots(auth), Tops(auth))
BY RootInClimbs DEF Tops

(* They are what get_subtree_root returns.                                  *)
LEMMA TopIsRoot ==
  ASSUME NEW st, NEW x \in Dirs
  PROVE  get_subtree_root(st, x) = Tops(st.auth)[x]
BY RootIsRootIn DEF Tops

(* Setting dir_auth makes a root, and clearing it unmakes one.              *)
LEMMA RootsAdjusted ==
  ASSUME NEW auth \in [Dirs -> Auths \cup {CDIR_AUTH_DEFAULT}], NEW d \in Dirs, NEW a \in Auths
  PROVE  /\ Roots([auth EXCEPT ![d] = a]) = Roots(auth) \cup {d}
         /\ Roots([auth EXCEPT ![d] = CDIR_AUTH_DEFAULT]) = Roots(auth) \ {d}
         /\ [auth EXCEPT ![d] = a] \in [Dirs -> Auths \cup {CDIR_AUTH_DEFAULT}]
         /\ [auth EXCEPT ![d] = CDIR_AUTH_DEFAULT] \in [Dirs -> Auths \cup {CDIR_AUTH_DEFAULT}]
BY AuthIsNoDefault DEF Roots

(* adjust_subtree_auth makes d a root with authority a, and moves only what *)
(* lies beneath d.                                                          *)
LEMMA AdjustEffect ==
  ASSUME Tree(parent), NEW st, Shape(st), NEW d \in Dirs, NEW a \in Auths
  PROVE  /\ Shape(adjust_subtree_auth(st, d, a))
         /\ Adjusted(st, adjust_subtree_auth(st, d, a), d, a)
<1> DEFINE n == adjust_subtree_auth(st, d, a)
           Q == Roots(st.auth)
           f == Tops(st.auth)
           au == [st.auth EXCEPT ![d] = a]
           g == Tops(au)
<1>1. n.auth = au /\ n = [auth |-> n.auth, sub |-> n.sub]
  BY DEF adjust_subtree_auth, Shape
<1>2. Roots(au) = Q \cup {d} /\ au \in [Dirs -> Auths \cup {CDIR_AUTH_DEFAULT}]
  BY RootsAdjusted DEF Shape
<1>3. Root \in Q
  BY DEF Shape
<1>4. Climbs(parent, Q, f)
  BY <1>3, TopsClimb
<1>5. Climbs(parent, Q \cup {d}, g)
  BY <1>2, <1>3, TopsClimb
<1>6. CASE d \in Q
  <2>1. Q \cup {d} = Q
    BY <1>6
  <2>2. \A x \in Dirs : f[x] = g[x]
    <3> HIDE DEF Q, f, g
    <3>1. \A x \in Dirs : g[x] = IF x \in Q THEN x ELSE g[parent[ino[x]]]
      BY <1>5, <2>1 DEF Climbs
    <3> QED BY <1>3, <1>4, <3>1, ClimbUnique, SMTT(30)
  <2>3. f = g
    BY <2>2, <1>4, <1>5 DEF Climbs, Tops
  <2> QED BY <1>1, <1>2, <1>3, <1>6, <2>3 DEF Shape, Adjusted
<1>7. CASE d \notin Q
  <2>1. Cut(parent, f, g, d)
    <3> HIDE DEF Q, f, g
    <3> QED BY <1>3, <1>4, <1>5, <1>7, ClimbWith
  <2> QED BY <1>1, <1>2, <1>3, <1>7, <2>1 DEF Shape, Adjusted
<1> QED BY <1>6, <1>7

(* adjust_subtree_auth keeps the map right.                                 *)
LEMMA AdjustGood ==
  ASSUME Tree(parent), NEW st, Good(st, {}, Root), NEW d \in Dirs, NEW a \in Auths
  PROVE  Good(adjust_subtree_auth(st, d, a), {}, Root)
<1> DEFINE n == adjust_subtree_auth(st, d, a)
           Q == Roots(st.auth)
           f == Tops(st.auth)
           g == Tops(n.auth)
<1>1. Shape(st) /\ Fits(parent, Q, f, st.sub)
  BY DEF Good, Fits
<1>2. Shape(n) /\ Adjusted(st, n, d, a)
  BY <1>1, AdjustEffect
<1>3. Root \in Q /\ Q \in SUBSET Dirs
  BY <1>1 DEF Shape, Roots
<1>4. Climbs(parent, Q, f)
  BY <1>3, TopsClimb
<1>5. Roots(n.auth) = Q \cup {d}
  BY <1>2 DEF Adjusted
<1>6. Climbs(parent, Q \cup {d}, g)
  BY <1>3, <1>5, TopsClimb
<1>7. Tops(st.auth)[d] = d <=> d \in Q
  <2> HIDE DEF Q, f
  <2>1. f[d] = d <=> d \in Q
    BY <1>3, <1>4, ClimbEnds, SMTT(30) DEF Climbs
  <2> QED BY <2>1 DEF f
<1>8. (IF is_base(d) THEN d ELSE get_subtree_root(st, d)) = f[d]
  BY <1>3, <1>7, TopIsRoot DEF is_base
<1>9. CASE d \in Q
  <2>1. n.sub = st.sub
    BY <1>7, <1>8, <1>9, <1>1 DEF adjust_subtree_auth, Shape
  <2>2. Q \cup {d} = Q
    BY <1>9
  <2>3. g = f
    BY <1>2, <1>9 DEF Adjusted
  <2> QED BY <1>1, <1>2, <1>5, <2>1, <2>2, <2>3 DEF Good, Fits
<1>10. CASE d \notin Q
  <2> DEFINE au == [st.auth EXCEPT ![d] = a]
             mine == {b \in st.sub[f[d]] :
                        get_subtree_root([st EXCEPT !.auth = au], get_parent_dir(b)) = d}
  <2>1. /\ n.auth = au
        /\ n.sub = [r \in DOMAIN st.sub \cup {d} |->
                      CASE r = d -> mine [] r = f[d] -> (st.sub[r] \ mine) \cup {d}
                        [] OTHER -> st.sub[r]]
    BY <1>7, <1>8, <1>10, <1>1 DEF adjust_subtree_auth, Shape
  <2>2. f[d] \in Q /\ f[d] # d
    <3> HIDE DEF Q, f
    <3> QED BY <1>3, <1>4, <1>10, ClimbEnds, SMTT(30)
  <2>3. DOMAIN st.sub = Q /\ st.sub[f[d]] \subseteq Q \ {Root}
    BY <1>1, <2>2 DEF Fits, FitsBut
  <2>4. mine = {b \in st.sub[f[d]] : g[parent[ino[b]]] = d}
    <3>0. PICK s : s = [st EXCEPT !.auth = au]
      OBVIOUS
    <3>1. s.auth = au
      BY <1>1, <3>0 DEF Shape
    <3>2. \A b \in st.sub[f[d]] : get_parent_dir(b) = parent[ino[b]] /\ parent[ino[b]] \in Dirs
      BY <1>3, <2>3, ParentIsDir DEF get_parent_dir
    <3>3. \A b \in st.sub[f[d]] : get_subtree_root(s, get_parent_dir(b)) = g[parent[ino[b]]]
      <4> HIDE DEF au, n, f
      <4> QED BY <3>1, <3>2, <2>1, TopIsRoot, SMTT(30)
    <3> QED BY <3>0, <3>3
  <2> HIDE DEF n, f, g, Q, au, mine
  <2>5. /\ DOMAIN n.sub = Q \cup {d}
        /\ n.sub[d] = mine
        /\ n.sub[f[d]] = (st.sub[f[d]] \ mine) \cup {d}
        /\ \A r \in Q : r # f[d] => n.sub[r] = st.sub[r]
    BY <2>1, <2>2, <2>3, <1>10
  <2>6. Fits(parent, Q \cup {d}, g, n.sub)
    <3>1. Splits(parent, Q, f, g, st.sub, n.sub, d)
      BY <2>4, <2>5 DEF Splits
    <3> QED BY <1>1, <1>3, <1>4, <1>6, <1>10, <3>1, SplitFits
  <2> QED BY <1>2, <1>5, <2>6 DEF Good, Fits, g, n
<1> QED BY <1>9, <1>10

(* The conditions of try_subtree_merge_at.                                  *)
Mergeable(st, d) ==
  /\ d # Root
  /\ st.auth[Tops(st.auth)[parent[ino[d]]]] = st.auth[d]
  /\ st.auth[d][2] = CDIR_AUTH_UNKNOWN
  /\ d \notin exportbound

(* try_subtree_merge_at merges d when its conditions hold, and does nothing *)
(* otherwise.                                                               *)
LEMMA MergeEffect ==
  ASSUME Tree(parent), NEW st, Shape(st), NEW d \in Roots(st.auth)
  PROVE  /\ Shape(try_subtree_merge_at(st, d))
         /\ IF Mergeable(st, d) THEN Merged(st, try_subtree_merge_at(st, d), d)
            ELSE try_subtree_merge_at(st, d) = st
<1> DEFINE n == try_subtree_merge_at(st, d)
           Q == Roots(st.auth)
           f == Tops(st.auth)
           up == f[parent[ino[d]]]
           au == [st.auth EXCEPT ![d] = CDIR_AUTH_DEFAULT]
           g == Tops(au)
<1>1. d \in Dirs /\ Root \in Q /\ Q \in SUBSET Dirs
  BY DEF Shape, Roots
<1>2. Climbs(parent, Q, f)
  BY <1>1, TopsClimb
<1>3. ASSUME d # Root
      PROVE  /\ up # d /\ up \in Q /\ get_subtree_root(st, get_parent_dir(d)) = up
  <2>1. parent[ino[d]] \in Dirs
    BY <1>1, <1>3, ParentIsDir
  <2>2. get_subtree_root(st, get_parent_dir(d)) = up
    BY <2>1, TopIsRoot DEF get_parent_dir
  <2> HIDE DEF Q, f
  <2>3. f[parent[ino[d]]] # d
    BY <1>1, <1>2, <1>3, ParentElsewhere DEF Q
  <2>4. f[parent[ino[d]]] \in Q
    BY <1>1, <1>2, <2>1, ClimbEnds
  <2> QED BY <2>2, <2>3, <2>4
<1>4. CASE ~Mergeable(st, d)
  <2>1. n = st
    BY <1>3, <1>4 DEF Mergeable, try_subtree_merge_at, is_base
  <2> QED BY <1>4, <2>1
<1>5. CASE Mergeable(st, d)
  <2>1. d # Root
    BY <1>5 DEF Mergeable
  <2>2. /\ n.auth = au /\ n = [auth |-> n.auth, sub |-> n.sub]
        /\ n.sub = [r \in DOMAIN st.sub \ {d} |->
                      IF r = up THEN (st.sub[up] \ {d}) \cup st.sub[d] ELSE st.sub[r]]
    BY <1>3, <1>5, <2>1 DEF Mergeable, try_subtree_merge_at, is_base
  <2>3. Roots(au) = Q \ {d} /\ au \in [Dirs -> Auths \cup {CDIR_AUTH_DEFAULT}]
    <3>1. PICK r \in Ranks : TRUE
      BY TreeAssumption
    <3>2. <<r, CDIR_AUTH_UNKNOWN>> \in Auths
      BY DEF Auths, Unambiguous
    <3> QED BY <1>1, <3>2, RootsAdjusted DEF Shape
  <2>4. Climbs(parent, Q \ {d}, g)
    BY <1>1, <2>1, <2>3, TopsClimb
  <2>5. \A x \in Dirs : g[x] = IF f[x] = d THEN up ELSE f[x]
    <3> HIDE DEF Q, f, g
    <3>1. d \in Q
      BY DEF Q
    <3> QED BY <1>1, <1>2, <2>1, <2>4, <3>1, ClimbWithout, SMTT(30)
  <2>6. st.auth[up] = st.auth[d]
    BY <1>5 DEF Mergeable
  <2>7. Merged(st, n, d)
    <3> HIDE DEF n, au
    <3> QED BY <1>3, <2>1, <2>2, <2>3, <2>5, <2>6 DEF Merged, au
  <2>8. Shape(n)
    BY <1>1, <2>1, <2>2, <2>3 DEF Shape
  <2> QED BY <1>5, <2>7, <2>8
<1> QED BY <1>4, <1>5

(* try_subtree_merge_at keeps the map right, also in the middle of a        *)
(* rename.                                                                  *)
LEMMA MergeGood ==
  ASSUME Tree(parent), NEW X, NEW o, NEW st, Good(st, X, o), NEW d \in Roots(st.auth),
         d \notin X, X = {} \/ o # d
  PROVE  Good(try_subtree_merge_at(st, d), X, o)
<1> DEFINE n == try_subtree_merge_at(st, d)
           Q == Roots(st.auth)
           f == Tops(st.auth)
           g == Tops(n.auth)
<1>1. Shape(st) /\ FitsBut(parent, Q, f, st.sub, X, o)
  BY DEF Good
<1>2. Shape(n) /\ IF Mergeable(st, d) THEN Merged(st, n, d) ELSE n = st
  BY <1>1, MergeEffect
<1>3. CASE n = st
  BY <1>3
<1>4. CASE Merged(st, n, d)
  <2>1. d \in Dirs /\ d \in Q /\ d # Root /\ Root \in Q /\ Q \in SUBSET Dirs
    BY <1>1, <1>4 DEF Shape, Roots, Merged
  <2>2. Climbs(parent, Q, f)
    BY <2>1, TopsClimb
  <2>3. Roots(n.auth) = Q \ {d}
    BY <1>4 DEF Merged
  <2>4. Climbs(parent, Q \ {d}, g)
    BY <2>1, <2>3, TopsClimb
  <2>5. Joins(Q, f[parent[ino[d]]], st.sub, n.sub, d)
    <3>1. DOMAIN st.sub = Q
      BY <1>1 DEF FitsBut
    <3> HIDE DEF n
    <3> QED BY <1>4, <3>1 DEF Joins, Merged
  <2> HIDE DEF n, Q, f, g
  <2>6. FitsBut(parent, Q \ {d}, g, n.sub, X, o)
    BY <1>1, <2>1, <2>2, <2>4, <2>5, MergeFits
  <2> QED BY <1>2, <2>3, <2>6 DEF Good, g, n
<1> QED BY <1>2, <1>3, <1>4

(* A merge leaves every dirfrag with the authority it had.                  *)
LEMMA MergeAuthority ==
  ASSUME NEW st, NEW n, NEW d \in Dirs, Shape(st), Merged(st, n, d), NEW x \in Dirs,
         Tree(parent)
  PROVE  n.auth[Tops(n.auth)[x]] = st.auth[Tops(st.auth)[x]]
<1>1. Climbs(parent, Roots(st.auth), Tops(st.auth))
  BY TopsClimb DEF Shape
<1> QED BY <1>1, SMTT(30) DEF Shape, Merged, Climbs
-----------------------------------------------------------------------------
(* The operations.                                                          *)
LEMMA Facts ==
  ASSUME TypeOK
  PROVE  /\ Climbs(parent, R, Top) /\ Top = Tops(dir_auth) /\ R = Roots(dir_auth)
         /\ Shape(Now) /\ Now.auth = dir_auth /\ Now.sub = subtrees
         /\ \A x \in Dirs : Top[x] \in R /\ Top[x] \in Dirs
         /\ R \in SUBSET Dirs
<1>1. Climbs(parent, R, Top)
  BY RootInClimbs DEF TypeOK, R, Top
<1>2. R \in SUBSET Dirs
  BY DEF R, Roots
<1>3. \A x \in Dirs : Top[x] \in R
  <2> HIDE DEF R, Top
  <2> QED BY <1>1, ClimbEnds DEF TypeOK
<1> QED BY <1>1, <1>2, <1>3 DEF TypeOK, R, Top, Tops, Shape, Now

(* The record the primitives are given is a right one.                      *)
LEMMA NowGood ==
  ASSUME TypeOK, NEW X, NEW o, FitsBut(parent, R, Top, subtrees, X, o)
  PROVE  Good(Now, X, o)
BY Facts DEF Good

(* A step that stores a right record leaves the state right.                *)
LEMMA Landed ==
  ASSUME TypeOK, NEW n, NEW X, NEW o, Good(n, X, o), Roots(n.auth) \subseteq cached,
         cached' = cached, parent' = parent, dir_auth' = n.auth, subtrees' = n.sub, op' \in Ops
  PROVE  /\ TypeOK' /\ FitsBut(parent, R, Top, subtrees, X, o)'
         /\ R' = Roots(n.auth) /\ Top' = Tops(n.auth)
<1>1. R' = Roots(n.auth) /\ Top' = Tops(n.auth)
  BY DEF R, Top, Tops
<1>2. TypeOK'
  BY <1>1 DEF TypeOK, Good, Shape
<1>3. FitsBut(parent, R, Top, subtrees, X, o)'
  BY <1>1 DEF Good, FitsBut
<1> QED BY <1>1, <1>2, <1>3

(* The fields of the operation in progress, by its name.                    *)
LEMMA OpCases ==
  ASSUME op \in Ops
  PROVE  /\ op.name = "idle" <=> op = idle
         /\ op.name = "merge" => op \in [name : {"merge"}, todo : SUBSET Dirs]
         /\ op.name \in {"bounds", "swallow", "strays", "verify"} =>
              op \in [name : {"bounds", "swallow", "strays", "verify"}, dir : Dirs,
                      bounds : SUBSET Dirs, todo : SUBSET Dirs, auth : Unambiguous,
                      oldauth : Auths, bound : Dirs, copy : SUBSET Dirs]
         /\ op.name = "rename" => op \in [name : {"rename"}, olddir : Dirs, newdir : Dirs,
                                          roots : SUBSET Dirs, nested : SUBSET Dirs]
BY SMTT(30) DEF Ops, idle

(* Between operations the invariant is the types and the map.               *)
LEMMA IdleKept ==
  ASSUME TypeOK, Fits(parent, R, Top, subtrees), op = idle
  PROVE  IInv
BY DEF IInv, idle

(* The bounds of a root, spelled out.                                       *)
LEMMA FitsFacts ==
  ASSUME TypeOK, Fits(parent, R, Top, subtrees)
  PROVE  /\ DOMAIN subtrees = R
         /\ \A r \in R : subtrees[r] = {b \in R \ {Root} : Top[parent[ino[b]]] = r}
BY DEF Fits, FitsBut

(* CDir::authority is the dir_auth of the root above.                       *)
LEMMA AuthorityIs ==
  ASSUME TypeOK
  PROVE  /\ \A x \in Dirs : authority(Now, x) = dir_auth[Top[x]]
         /\ \A x \in Dirs : get_subtree_root(Now, x) = Top[x]
         /\ Authorities = [x \in cached |-> dir_auth[Top[x]]]
<1>1. \A x \in Dirs : get_subtree_root(Now, x) = Top[x]
  BY Facts, TopIsRoot, SMTT(30)
<1>2. \A x \in Dirs : authority(Now, x) = dir_auth[Top[x]]
  BY <1>1, Facts DEF authority
<1> QED BY <1>1, <1>2 DEF Authorities, TypeOK

(* The base dirfrag alone is a root at the start, without bounds.           *)
LEMMA InitEstablishes == Init => IInv
<1> SUFFICES ASSUME Init PROVE IInv
  OBVIOUS
<1>1. PICK r \in Ranks : r = CHOOSE q \in Ranks : TRUE
  BY TreeAssumption
<1>2. <<r, CDIR_AUTH_UNKNOWN>> \in Auths
  BY DEF Auths, Unambiguous
<1>3. R = {Root} /\ dir_auth \in [Dirs -> Auths \cup {CDIR_AUTH_DEFAULT}]
  <2>1. <<r, CDIR_AUTH_UNKNOWN>> # CDIR_AUTH_DEFAULT /\ Root \in Dirs
    BY <1>2, AuthIsNoDefault, TreeAssumption
  <2>2. dir_auth = [d \in Dirs |-> IF d = Root THEN <<r, CDIR_AUTH_UNKNOWN>> ELSE CDIR_AUTH_DEFAULT]
    BY <1>1 DEF Init
  <2> QED BY <1>2, <2>1, <2>2 DEF R, Roots
<1>4. Tree(parent)
  BY TreeAssumption DEF Tree, Init
<1>5. \A d \in cached \ {Root} : parent[ino[d]] \in cached
  BY <1>4, ParentIsDir DEF Init
<1>6. TypeOK
  BY <1>3, <1>4, <1>5, TreeAssumption DEF TypeOK, Init, Ops
<1>7. Fits(parent, R, Top, subtrees)
  BY <1>3 DEF Fits, FitsBut, Init
<1> QED BY <1>6, <1>7, IdleKept DEF Init

(* Marking export bounds leaves the map alone.                              *)
LEMMA MarkKeeps ==
  ASSUME IInv, NEW d \in Dirs, MarkExportBounds(d)
  PROVE  IInv'
<1>1. TypeOK' /\ Fits(parent, R, Top, subtrees)' /\ op' = idle
  BY DEF IInv, MarkExportBounds, TypeOK, R, Top, Fits, FitsBut, idle
<1> QED BY <1>1 DEF IInv, idle

(* A delegation (adjust_subtree_auth) keeps the invariant.                  *)
LEMMA AdjustKeeps ==
  ASSUME IInv, NEW d \in Dirs, NEW a \in Auths, AdjustAuth(d, a)
  PROVE  IInv'
<1>1. TypeOK /\ op = idle /\ op' = idle /\ Good(Now, {}, Root) /\ d \in cached
  <2>1. TypeOK /\ Fits(parent, R, Top, subtrees)
    BY DEF IInv, AdjustAuth, idle
  <2> QED BY <2>1, NowGood DEF AdjustAuth, Fits
<1>2. PICK n : n = adjust_subtree_auth(Now, d, a)
  OBVIOUS
<1>3. dir_auth' = n.auth /\ subtrees' = n.sub /\ cached' = cached /\ parent' = parent
  BY <1>2 DEF AdjustAuth, Become
<1>4. Good(n, {}, Root)
  BY <1>1, <1>2, AdjustGood DEF TypeOK
<1>5. Roots(n.auth) \subseteq cached
  <2>1. Adjusted(Now, n, d, a)
    BY <1>1, <1>2, AdjustEffect DEF Good, TypeOK
  <2> QED BY <1>1, <2>1, Facts DEF Adjusted, TypeOK
<1>6. op' \in Ops
  BY <1>1 DEF Ops
<1>7. TypeOK' /\ Fits(parent, R, Top, subtrees)'
  BY <1>1, <1>3, <1>4, <1>5, <1>6, Landed DEF Fits
<1> QED BY <1>1, <1>7 DEF IInv, idle

(* A call of try_subtree_merge_at on a root keeps the map right and every   *)
(* authority.                                                               *)
LEMMA MergeStep ==
  ASSUME TypeOK, NEW X, NEW o, NEW st, Good(st, X, o), st.auth = dir_auth,
         NEW d \in R, d \notin X, X = {} \/ o # d,
         NEW n, n = try_subtree_merge_at(st, d), dir_auth' = n.auth, subtrees' = n.sub,
         cached' = cached, parent' = parent, op' \in Ops
  PROVE  /\ TypeOK' /\ FitsBut(parent, R, Top, subtrees, X, o)'
         /\ R \ {d} \subseteq R' /\ R' \subseteq R
         /\ \A x \in Dirs : dir_auth'[Top'[x]] = dir_auth[Top[x]]
         /\ \A x \in Dirs : Top[x] # d => Top'[x] = Top[x]
<1>1. Shape(st) /\ Tree(parent) /\ d \in Roots(st.auth) /\ R = Roots(st.auth) /\ Top = Tops(st.auth)
  BY Facts DEF Good, TypeOK
<1>2. Good(n, X, o)
  BY <1>1, MergeGood
<1>3. Shape(n) /\ (n = st \/ Merged(st, n, d))
  BY <1>1, MergeEffect
<1>4. Roots(n.auth) \subseteq R /\ R \ {d} \subseteq Roots(n.auth)
  BY <1>1, <1>3 DEF Merged
<1>5. Roots(n.auth) \subseteq cached
  BY <1>4 DEF TypeOK
<1>6. /\ TypeOK' /\ FitsBut(parent, R, Top, subtrees, X, o)'
      /\ R' = Roots(n.auth) /\ Top' = Tops(n.auth)
  BY <1>2, <1>5, Landed
<1>7. \A x \in Dirs : n.auth[Tops(n.auth)[x]] = dir_auth[Top[x]]
  <2>1. CASE n = st
    BY <2>1, <1>1
  <2>2. CASE Merged(st, n, d)
    <3> SUFFICES ASSUME NEW x \in Dirs PROVE n.auth[Tops(n.auth)[x]] = st.auth[Tops(st.auth)[x]]
      BY <1>1
    <3>1. d \in Dirs
      BY Facts
    <3> QED BY <1>1, <2>2, <3>1, MergeAuthority
  <2> QED BY <1>3, <2>1, <2>2
<1>8. \A x \in Dirs : Top[x] # d => Tops(n.auth)[x] = Top[x]
  BY <1>1, <1>3 DEF Merged
<1> QED BY <1>4, <1>6, <1>7, <1>8

(* try_subtree_merge starts with the bounds of the root and merges the root *)
(* itself.                                                                  *)
LEMMA StartMergeKeeps ==
  ASSUME IInv, NEW d \in Dirs, try_subtree_merge(d)
  PROVE  IInv'
<1>1. TypeOK /\ Fits(parent, R, Top, subtrees)
  BY DEF IInv, try_subtree_merge, idle
<1>2. /\ DOMAIN subtrees = R
      /\ \A r \in R : subtrees[r] = {b \in R \ {Root} : Top[parent[ino[b]]] = r}
  BY <1>1, FitsFacts
<1>3. d \in R
  BY <1>2 DEF try_subtree_merge
<1>4. Good(Now, {}, Root) /\ Now.auth = dir_auth
  BY <1>1, NowGood, Facts DEF Fits
<1>5. PICK n : n = try_subtree_merge_at(Now, d)
  OBVIOUS
<1>6. /\ dir_auth' = n.auth /\ subtrees' = n.sub /\ cached' = cached /\ parent' = parent
      /\ op' = [name |-> "merge", todo |-> subtrees[d]] /\ before' = Authorities
  BY <1>5 DEF try_subtree_merge, Become, Start, idle
<1>7. subtrees[d] \subseteq R \ {Root} /\ d \notin subtrees[d] /\ subtrees[d] \subseteq Dirs
  <2>1. d # Root => Top[parent[ino[d]]] # d
    BY <1>1, <1>3, Facts, ParentElsewhere DEF TypeOK
  <2>2. R \in SUBSET Dirs
    BY <1>1, Facts
  <2> QED BY <1>2, <1>3, <2>1, <2>2, SMTT(30)
<1>8. op' \in Ops
  BY <1>6, <1>7 DEF Ops
<1>9. /\ TypeOK' /\ FitsBut(parent, R, Top, subtrees, {}, Root)' /\ R \ {d} \subseteq R'
      /\ \A x \in Dirs : dir_auth'[Top'[x]] = dir_auth[Top[x]]
  BY <1>1, <1>3, <1>4, <1>5, <1>6, <1>8, MergeStep
<1>10. MergeInv'
  <2>1. Authorities = [x \in cached |-> dir_auth[Top[x]]] /\ cached \subseteq Dirs
    BY <1>1, AuthorityIs DEF TypeOK
  <2>2. before' = [x \in cached' |-> dir_auth'[Top'[x]]]
    BY <1>6, <1>9, <2>1
  <2>3. op'.todo \subseteq R' \ {Root}
    BY <1>6, <1>7, <1>9
  <2> QED BY <2>2, <2>3 DEF MergeInv
<1> QED BY <1>6, <1>9, <1>10 DEF IInv, Fits

(* Its loop keeps every authority at each bound.                            *)
LEMMA MergeAtBoundKeeps ==
  ASSUME IInv, MergeAtBound
  PROVE  IInv'
<1>1. TypeOK /\ Fits(parent, R, Top, subtrees) /\ MergeInv /\ op.name = "merge"
  BY DEF IInv, MergeAtBound
<1>2. op \in [name : {"merge"}, todo : SUBSET Dirs]
  BY <1>1, OpCases DEF TypeOK
<1>3. PICK d \in op.todo : Become(try_subtree_merge_at(Now, d)) /\ op' = [op EXCEPT !.todo = @ \ {d}]
  BY DEF MergeAtBound
<1>4. Good(Now, {}, Root) /\ Now.auth = dir_auth
  BY <1>1, NowGood, Facts DEF Fits
<1>5. PICK n : n = try_subtree_merge_at(Now, d)
  OBVIOUS
<1>6. /\ dir_auth' = n.auth /\ subtrees' = n.sub /\ cached' = cached /\ parent' = parent
      /\ before' = before
  BY <1>3, <1>5 DEF MergeAtBound, Become
<1>7. op' = [name |-> "merge", todo |-> op.todo \ {d}]
  BY <1>2, <1>3
<1>8. op' \in Ops /\ d \in R
  BY <1>1, <1>2, <1>7 DEF Ops, MergeInv
<1>9. /\ TypeOK' /\ FitsBut(parent, R, Top, subtrees, {}, Root)' /\ R \ {d} \subseteq R'
      /\ \A x \in Dirs : dir_auth'[Top'[x]] = dir_auth[Top[x]]
  BY <1>1, <1>4, <1>5, <1>6, <1>8, MergeStep
<1>10. MergeInv'
  <2>1. cached \subseteq Dirs
    BY <1>1 DEF TypeOK
  <2>2. before' = [x \in cached' |-> dir_auth'[Top'[x]]]
    BY <1>1, <1>6, <1>9, <2>1 DEF MergeInv
  <2>3. op'.todo \subseteq R' \ {Root}
    BY <1>1, <1>7, <1>9 DEF MergeInv
  <2> QED BY <2>2, <2>3 DEF MergeInv
<1> QED BY <1>7, <1>9, <1>10 DEF IInv, Fits

(* The end of an operation forgets what its loops remembered.               *)
LEMMA EndKeeps ==
  ASSUME TypeOK, Fits(parent, R, Top, subtrees), End
  PROVE  IInv'
<1>1. TypeOK' /\ Fits(parent, R, Top, subtrees)' /\ op' = idle
  BY DEF End, TypeOK, R, Top, Fits, FitsBut, Ops
<1> QED BY <1>1 DEF IInv, idle

(* Opening a dirfrag beneath a cached one adds no root.                     *)
LEMMA OpenKeeps ==
  ASSUME IInv, NEW d \in Dirs, OpenDirfrag(d)
  PROVE  IInv'
<1>1. TypeOK /\ Fits(parent, R, Top, subtrees) /\ op' = idle
  BY DEF IInv, OpenDirfrag, idle
<1>2. TypeOK'
  BY <1>1 DEF TypeOK, OpenDirfrag, R, Ops, get_parent_dir
<1>3. Fits(parent, R, Top, subtrees)'
  BY <1>1, SMTT(30) DEF OpenDirfrag, R, Top, Fits, FitsBut
<1> QED BY <1>1, <1>2, <1>3 DEF IInv, idle

(* trim_dirfrag removes a leaf of the tree, and its entry in the map if it  *)
(* is a root.                                                               *)
LEMMA TrimKeeps ==
  ASSUME IInv, NEW d \in Dirs, trim_dirfrag(d)
  PROVE  IInv'
<1>1. TypeOK /\ Fits(parent, R, Top, subtrees) /\ op' = idle
  BY DEF IInv, trim_dirfrag, idle
<1>2. /\ d \in cached /\ d # Root /\ \A x \in cached \ {d} : ~Under(x, d)
      /\ cached' = cached \ {d} /\ parent' = parent
      /\ dir_auth' = [dir_auth EXCEPT ![d] = CDIR_AUTH_DEFAULT]
  BY BeneathIsBeneathIn DEF trim_dirfrag, Under
<1>3. \A x \in cached \ {Root} : x # d => parent[ino[x]] # d
  <2> SUFFICES ASSUME NEW x \in cached, x # Root, x # d, parent[ino[x]] = d PROVE FALSE
    OBVIOUS
  <2>1. BeneathIn(parent, d, d) /\ x \in Dirs
    BY <1>1, BeneathSelf DEF TypeOK
  <2>2. BeneathIn(parent, x, d)
    BY <1>1, <2>1, BeneathUnfold DEF TypeOK
  <2> QED BY <1>2, <2>2 DEF Under
<1>4. R' = R \ {d} /\ dir_auth' \in [Dirs -> Auths \cup {CDIR_AUTH_DEFAULT}]
  BY <1>1, <1>2 DEF R, Roots, TypeOK
<1>5. TypeOK'
  BY <1>1, <1>2, <1>3, <1>4 DEF TypeOK, Ops
<1>6. /\ Climbs(parent, R, Top) /\ R \in SUBSET Dirs /\ \A x \in Dirs : Top[x] \in R
      /\ DOMAIN subtrees = R
      /\ \A r \in R : subtrees[r] = {b \in R \ {Root} : Top[parent[ino[b]]] = r}
  BY <1>1, Facts, FitsFacts
<1>7. CASE d \notin R
  <2>1. dir_auth' = dir_auth
    BY <1>1, <1>2, <1>7 DEF R, Roots, TypeOK
  <2>2. subtrees' = subtrees
    BY <1>6, <1>7 DEF trim_dirfrag
  <2>3. R' = R /\ Top' = Top
    BY <1>2, <2>1 DEF R, Top
  <2>4. Fits(parent, R, Top, subtrees)'
    BY <1>1, <1>2, <2>2, <2>3 DEF Fits, FitsBut
  <2> QED BY <1>1, <1>5, <2>4 DEF IInv, idle
<1>8. CASE d \in R
  <2>1. parent[ino[d]] \in Dirs
    BY <1>1, <1>2, ParentIsDir DEF TypeOK
  <2>2. PICK up : up = Top[parent[ino[d]]]
    OBVIOUS
  <2>3. subtrees' = [r \in R \ {d} |-> IF r = up THEN subtrees[up] \ {d} ELSE subtrees[r]]
    BY <1>1, <1>6, <1>8, <2>1, <2>2, AuthorityIs DEF trim_dirfrag, get_parent_dir
  <2>4. subtrees[d] = {}
    <3> SUFFICES ASSUME NEW b \in R, b # Root, Top[parent[ino[b]]] = d PROVE FALSE
      BY <1>6, <1>8, SMTT(30)
    <3>1. b # d
      BY <1>1, <1>6, <1>8, ParentElsewhere, SMTT(30) DEF TypeOK
    <3>2. b \in Dirs /\ b \in cached /\ parent[ino[b]] \in Dirs
      BY <1>1, <1>6, ParentIsDir DEF TypeOK
    <3>3. BeneathIn(parent, parent[ino[b]], d)
      BY <1>1, <1>6, <3>2, BeneathRoot DEF TypeOK
    <3>4. BeneathIn(parent, b, d)
      BY <1>1, <3>2, <3>3, BeneathUnfold DEF TypeOK
    <3> QED BY <1>2, <3>1, <3>2, <3>4 DEF Under
  <2>5. up \in R /\ up # d
    BY <1>1, <1>2, <1>6, <1>8, <2>1, <2>2, ParentElsewhere, SMTT(30) DEF TypeOK
  <2>6. Joins(R, up, subtrees, subtrees', d)
    BY <2>3, <2>4, <2>5 DEF Joins
  <2>7. Climbs(parent, R \ {d}, Top')
    <3>1. Climbs(parent', R', Top')
      <4>1. Tree(parent') /\ Root \in Roots(dir_auth')
        BY <1>5 DEF TypeOK, R
      <4>2. Climbs(parent', Roots(dir_auth'), [x \in Dirs |-> RootIn(parent', dir_auth', x)])
        BY <4>1, RootInClimbs
      <4> QED BY <4>2 DEF R, Top
    <3> QED BY <1>2, <1>4, <3>1
  <2>8. FitsBut(parent, R \ {d}, Top', subtrees', {}, Root)
    <3>1. PICK new, g : new = subtrees' /\ g = Top'
      OBVIOUS
    <3>2. FitsBut(parent, R, Top, subtrees, {}, Root)
      BY <1>1 DEF Fits
    <3>3. Tree(parent) /\ Root \in R
      BY <1>1 DEF TypeOK
    <3> QED BY <1>2, <1>6, <1>8, <2>2, <2>6, <2>7, <3>1, <3>2, <3>3, MergeFits
  <2>9. Fits(parent, R, Top, subtrees)'
    BY <1>2, <1>4, <2>8 DEF Fits
  <2> QED BY <1>1, <1>5, <2>9 DEF IInv, idle
<1> QED BY <1>7, <1>8
-----------------------------------------------------------------------------
(* What a delegation and the swallowing of a subtree do to the partition.   *)
Delegated(d, a) ==
  /\ R' = R \cup {d}
  /\ \A x \in Dirs : Top'[x] = d => dir_auth'[d] = a /\ Top[x] = Top[d] /\ Under(x, d)
  /\ \A x \in Dirs : Top'[x] # d => Top'[x] = Top[x] /\ dir_auth'[Top[x]] = dir_auth[Top[x]]

(* t is merged into the subtree above it.                                   *)
Absorbed(t) ==
  /\ R' = R \ {t}
  /\ \A x \in Dirs : Top'[x] = IF Top[x] = t THEN Top[parent[ino[t]]] ELSE Top[x]
  /\ \A r \in R' : dir_auth'[r] = dir_auth[r]

(* adjust_subtree_auth on a right record gives what lies beneath d, down to *)
(* the roots beneath, to the new root.                                      *)
LEMMA DelegateFrom ==
  ASSUME TypeOK, NEW st, Good(st, {}, Root), st.auth = dir_auth, NEW d \in cached,
         NEW a \in Auths, NEW n, n = adjust_subtree_auth(st, d, a), dir_auth' = n.auth, subtrees' = n.sub,
         cached' = cached, parent' = parent, op' \in Ops
  PROVE  TypeOK' /\ Fits(parent, R, Top, subtrees)' /\ Delegated(d, a)
<1>1. Good(st, {}, Root) /\ st.auth = dir_auth /\ d \in Dirs /\ Tree(parent)
  BY DEF TypeOK
<1>2. Good(n, {}, Root) /\ Adjusted(st, n, d, a)
  BY <1>1, AdjustGood, AdjustEffect DEF Good
<1>3. Roots(n.auth) = R \cup {d}
  BY <1>1, <1>2, Facts DEF Adjusted
<1>4. Roots(n.auth) \subseteq cached
  BY <1>3 DEF TypeOK
<1>5. /\ TypeOK' /\ FitsBut(parent, R, Top, subtrees, {}, Root)'
      /\ R' = Roots(n.auth) /\ Top' = Tops(n.auth)
  BY <1>2, <1>4, Landed
<1>6. Climbs(parent, R, Top) /\ Top = Tops(dir_auth) /\ R = Roots(dir_auth) /\ Root \in R
  BY Facts DEF TypeOK
<1>7. Climbs(parent, R', Top')
  BY <1>1, <1>2, <1>5, TopsClimb DEF Good, Shape
<1>8. \A x \in Dirs : BeneathIn(parent, x, Top'[x])
  <2>1. PICK g, Q : g = Top' /\ Q = R'
    OBVIOUS
  <2>2. Root \in Q
    BY <2>1, <1>3, <1>5, <1>6
  <2> QED BY <1>1, <1>7, <2>1, <2>2, BeneathRoot
<1>9. dir_auth' = [dir_auth EXCEPT ![d] = a] /\ dir_auth \in [Dirs -> Auths \cup {CDIR_AUTH_DEFAULT}]
  BY <1>1, <1>2 DEF Adjusted, TypeOK
<1>10. CASE d \in R
  <2>1. Top' = Top
    BY <1>1, <1>2, <1>5, <1>6, <1>10 DEF Adjusted
  <2>2. Top[d] = d /\ \A x \in Dirs : Top[x] \in Dirs
    BY <1>1, <1>6, <1>10 DEF Climbs
  <2>3. dir_auth'[d] = a /\ \A x \in Dirs \ {d} : dir_auth'[x] = dir_auth[x]
    BY <1>1, <1>9
  <2>4. \A x \in Dirs : Top'[x] = Top[x]
    BY <2>1
  <2>5. R' = R \cup {d}
    BY <1>3, <1>5
  <2>6. ASSUME NEW x \in Dirs, Top'[x] = d PROVE Top[x] = Top[d] /\ Under(x, d)
    BY <1>8, <2>2, <2>4, <2>6 DEF Under
  <2>7. Delegated(d, a)
    BY <2>2, <2>3, <2>4, <2>5, <2>6 DEF Delegated
  <2> QED BY <1>5, <2>7 DEF Fits
<1>11. CASE d \notin R
  <2>1. Cut(parent, Top, Top', d)
    BY <1>1, <1>2, <1>5, <1>6, <1>11 DEF Adjusted
  <2>2. \A x \in Dirs : Top[x] \in Dirs /\ Top[x] \in R
    BY Facts
  <2>3. \A x \in Dirs : Top[x] = IF Top'[x] = d THEN Top[d] ELSE Top'[x]
    BY <2>1 DEF Cut
  <2>4. Delegated(d, a)
    BY <1>3, <1>5, <1>8, <1>9, <1>11, <1>1, <2>2, <2>3 DEF Delegated, Under
  <2> QED BY <1>5, <2>4 DEF Fits
<1> QED BY <1>10, <1>11

(* The same from the state.                                                 *)
LEMMA DelegateStep ==
  ASSUME TypeOK, Fits(parent, R, Top, subtrees), NEW d \in cached, NEW a \in Auths,
         NEW n, n = adjust_subtree_auth(Now, d, a), dir_auth' = n.auth, subtrees' = n.sub,
         cached' = cached, parent' = parent, op' \in Ops
  PROVE  TypeOK' /\ Fits(parent, R, Top, subtrees)' /\ Delegated(d, a)
<1>1. Good(Now, {}, Root) /\ Now.auth = dir_auth
  BY NowGood, Facts DEF Fits
<1> QED BY <1>1, DelegateFrom

(* adjust_subtree_auth with the authority above, followed by                *)
(* try_subtree_merge_at, merges a root that is no export bound: the body of *)
(* the swallowing loops.                                                    *)
LEMMA AbsorbStep ==
  ASSUME TypeOK, Fits(parent, R, Top, subtrees), NEW t \in R, t # Root, t \notin exportbound,
         NEW a \in Unambiguous, a = dir_auth[Top[parent[ino[t]]]],
         NEW n, n = try_subtree_merge_at(adjust_subtree_auth(Now, t, a), t),
         dir_auth' = n.auth, subtrees' = n.sub, cached' = cached, parent' = parent, op' \in Ops
  PROVE  TypeOK' /\ Fits(parent, R, Top, subtrees)' /\ Absorbed(t)
<1>1. /\ Good(Now, {}, Root) /\ Now.auth = dir_auth /\ t \in Dirs /\ Tree(parent)
      /\ Top = Tops(dir_auth) /\ R = Roots(dir_auth) /\ R \in SUBSET Dirs
  BY NowGood, Facts DEF Fits, TypeOK
<1>2. PICK m : m = adjust_subtree_auth(Now, t, a)
  OBVIOUS
<1>3. a \in Auths /\ a[2] = CDIR_AUTH_UNKNOWN
  BY AuthIsNoDefault
<1>4. Good(m, {}, Root) /\ Adjusted(Now, m, t, a)
  BY <1>1, <1>2, <1>3, AdjustGood, AdjustEffect DEF Good
<1>5. Roots(m.auth) = R /\ Tops(m.auth) = Top /\ m.auth = [dir_auth EXCEPT ![t] = a]
  <2>1. t \in Roots(Now.auth)
    BY <1>1
  <2>2. /\ m.auth = [Now.auth EXCEPT ![t] = a]
        /\ Roots(m.auth) = Roots(Now.auth) \cup {t}
        /\ Tops(m.auth) = Tops(Now.auth)
    BY <1>4, <2>1 DEF Adjusted
  <2>3. Roots(Now.auth) \cup {t} = Roots(Now.auth)
    BY <2>1
  <2> QED BY <1>1, <2>2, <2>3
<1>6. Top[parent[ino[t]]] # t /\ Top[parent[ino[t]]] \in R
  BY <1>1, Facts, ParentElsewhere, ParentIsDir, SMTT(30) DEF TypeOK
<1>7. Mergeable(m, t)
  BY <1>1, <1>3, <1>5, <1>6 DEF Mergeable, TypeOK
<1>8. Good(n, {}, Root) /\ Merged(m, n, t)
  BY <1>1, <1>2, <1>4, <1>5, <1>7, MergeGood, MergeEffect DEF Good
<1>9. Roots(n.auth) = R \ {t} /\ n.auth = [m.auth EXCEPT ![t] = CDIR_AUTH_DEFAULT]
  BY <1>5, <1>8 DEF Merged
<1>10. Roots(n.auth) \subseteq cached
  BY <1>9 DEF TypeOK
<1>11. /\ TypeOK' /\ FitsBut(parent, R, Top, subtrees, {}, Root)'
       /\ R' = Roots(n.auth) /\ Top' = Tops(n.auth)
  BY <1>8, <1>10, Landed
<1>12. \A x \in Dirs : Top'[x] = IF Top[x] = t THEN Top[parent[ino[t]]] ELSE Top[x]
  BY <1>5, <1>8, <1>11 DEF Merged
<1>13. \A r \in R \ {t} : dir_auth'[r] = dir_auth[r]
  BY <1>1, <1>5, <1>9 DEF TypeOK
<1> QED BY <1>9, <1>11, <1>12, <1>13 DEF Absorbed, Fits

(* A bound of a root is a root beneath it, with the root right above.       *)
LEMMA Bounds ==
  ASSUME TypeOK, Fits(parent, R, Top, subtrees), NEW r \in R, NEW s \in subtrees[r]
  PROVE  /\ s \in R /\ s \in Dirs /\ s # Root /\ s # r /\ Under(s, r)
         /\ Top[parent[ino[s]]] = r /\ parent[ino[s]] \in Dirs
<1>1. s \in R \ {Root} /\ Top[parent[ino[s]]] = r
  BY FitsFacts
<1>2. s \in Dirs /\ Climbs(parent, R, Top) /\ r \in Dirs
  BY <1>1, Facts
<1>3. parent[ino[s]] \in Dirs /\ s # r
  BY <1>1, <1>2, ParentIsDir, ParentElsewhere DEF TypeOK
<1>4. BeneathIn(parent, parent[ino[s]], r)
  BY <1>1, <1>2, <1>3, BeneathRoot DEF TypeOK
<1>5. BeneathIn(parent, s, r)
  BY <1>1, <1>2, <1>4, BeneathUnfold DEF TypeOK
<1> QED BY <1>1, <1>2, <1>3, <1>5 DEF Under

(* The bounds of a root lie apart.                                          *)
LEMMA BoundsApart ==
  ASSUME TypeOK, Fits(parent, R, Top, subtrees), NEW r \in R,
         NEW s \in subtrees[r], NEW c \in subtrees[r], Under(s, c)
  PROVE  s = c
<1>1. SUFFICES ASSUME s # c PROVE FALSE
  OBVIOUS
<1>2. /\ s \in R /\ s \in Dirs /\ s # Root /\ Top[parent[ino[s]]] = r /\ parent[ino[s]] \in Dirs
      /\ c \in R /\ c \in Dirs /\ c # r /\ Under(c, r)
  BY Bounds
<1>3. BeneathIn(parent, parent[ino[s]], c)
  BY <1>1, <1>2, BeneathParent DEF TypeOK, Under
<1>4. BeneathIn(parent, r, c)
  BY <1>2, <1>3, Facts, RootBeneath DEF TypeOK
<1> QED BY <1>2, <1>4, Facts, BeneathAntisymmetric DEF TypeOK, Under

(* The order of the tree, with the subtree roots in it.                     *)
LEMMA UnderFacts ==
  ASSUME TypeOK
  PROVE  /\ \A a \in Dirs : Under(a, a)
         /\ \A x, a, b \in Dirs : Under(x, a) /\ Under(a, b) => Under(x, b)
         /\ \A a, b \in Dirs : Under(a, b) /\ Under(b, a) => a = b
         /\ \A x, a, b \in Dirs : Under(x, a) /\ Under(x, b) => Under(a, b) \/ Under(b, a)
         /\ \A x \in Dirs : Under(x, Top[x]) /\ Top[Top[x]] = Top[x]
         /\ \A x, a \in Dirs : a \in R /\ Under(x, a) => Under(Top[x], a)
         /\ \A x \in Dirs : x \in R <=> Top[x] = x
<1>1. Tree(parent) /\ Climbs(parent, R, Top) /\ Root \in R
  BY Facts DEF TypeOK
<1>2. \A a \in Dirs : Under(a, a)
  BY <1>1, BeneathSelf DEF Under
<1>3. \A x, a, b \in Dirs : Under(x, a) /\ Under(a, b) => Under(x, b)
  BY <1>1, BeneathTransitive DEF Under
<1>4. \A a, b \in Dirs : Under(a, b) /\ Under(b, a) => a = b
  BY <1>1, BeneathAntisymmetric DEF Under
<1>5. \A x, a, b \in Dirs : Under(x, a) /\ Under(x, b) => Under(a, b) \/ Under(b, a)
  BY <1>1, BeneathBoth DEF Under
<1>6. \A x \in Dirs : Under(x, Top[x])
  BY <1>1, BeneathRoot DEF Under
<1>7. \A x \in Dirs : Top[Top[x]] = Top[x] /\ Top[x] \in R
  BY <1>1, ClimbEnds
<1>8. \A x, a \in Dirs : a \in R /\ Under(x, a) => Under(Top[x], a)
  BY <1>1, RootBeneath DEF Under
<1>9. \A x \in Dirs : x \in R <=> Top[x] = x
  BY <1>1, <1>7 DEF Climbs
<1> QED BY <1>2, <1>3, <1>4, <1>5, <1>6, <1>7, <1>8, <1>9

(* The parent of a dirfrag, in that order.                                  *)
LEMMA ParentFacts ==
  ASSUME TypeOK, NEW x \in Dirs, x # Root
  PROVE  /\ parent[ino[x]] \in Dirs
         /\ Under(x, parent[ino[x]])
         /\ \A a \in Dirs : x # a /\ Under(x, a) => Under(parent[ino[x]], a)
         /\ \A a \in Dirs : Under(parent[ino[x]], a) => Under(x, a)
         /\ x \in R => Top[parent[ino[x]]] # x
         /\ x \notin R => Top[x] = Top[parent[ino[x]]]
<1>1. Tree(parent) /\ Climbs(parent, R, Top) /\ Root \in R
  BY Facts DEF TypeOK
<1>2. parent[ino[x]] \in Dirs
  BY <1>1, ParentIsDir
<1>3. \A a \in Dirs : Under(parent[ino[x]], a) => Under(x, a)
  BY <1>1, BeneathUnfold DEF Under
<1>4. Under(x, parent[ino[x]])
  BY <1>2, <1>3, UnderFacts
<1>5. \A a \in Dirs : x # a /\ Under(x, a) => Under(parent[ino[x]], a)
  BY <1>1, BeneathParent DEF Under
<1>6. x \in R => Top[parent[ino[x]]] # x
  BY <1>1, ParentElsewhere
<1>7. x \notin R => Top[x] = Top[parent[ino[x]]]
  BY <1>1 DEF Climbs
<1> QED BY <1>2, <1>3, <1>4, <1>5, <1>6, <1>7

(* Nothing is above the base.                                               *)
LEMMA RootIsHighest ==
  ASSUME TypeOK, NEW a \in Dirs, Under(Root, a)
  PROVE  a = Root
BY TreeAssumption, BeneathUnfold DEF TypeOK, Under

(* A dirfrag beneath a root is in its subtree or beneath one of its bounds. *)
LEMMA InOrBeyond ==
  ASSUME TypeOK, Fits(parent, R, Top, subtrees), NEW r \in R, NEW x \in Dirs, Under(x, r)
  PROVE  Top[x] = r \/ \E t \in subtrees[r] : Under(x, t)
<1>1. SUFFICES ASSUME Top[x] # r PROVE \E t \in subtrees[r] : Under(x, t)
  OBVIOUS
<1>2. r \in Dirs /\ Climbs(parent, R, Top) /\ Tree(parent) /\ Root \in R
  BY Facts DEF TypeOK
<1>3. PICK t \in Dirs : t \in R /\ t # Root /\ Top[parent[ino[t]]] = r /\ BeneathIn(parent, x, t)
  BY <1>1, <1>2, BeneathBound, SMTT(30) DEF Under
<1> QED BY <1>3, FitsFacts DEF Under

(* The names of the phases of adjust_bounded_subtree_auth.                  *)
BoundedNames == {"bounds", "swallow", "strays", "verify"}

(* The fields of adjust_bounded_subtree_auth in progress.                   *)
LEMMA BoundedOp ==
  ASSUME op \in Ops, op.name \in BoundedNames
  PROVE  /\ op.dir \in Dirs /\ op.bounds \in SUBSET Dirs /\ op.todo \in SUBSET Dirs
         /\ op.auth \in Unambiguous /\ op.oldauth \in Auths /\ op.bound \in Dirs
         /\ op.copy \in SUBSET Dirs
         /\ op = [name |-> op.name, dir |-> op.dir, bounds |-> op.bounds, todo |-> op.todo,
                  auth |-> op.auth, oldauth |-> op.oldauth, bound |-> op.bound,
                  copy |-> op.copy]
BY OpCases DEF BoundedNames

(* A record with such fields is an operation.                               *)
LEMMA BoundedOpMade ==
  ASSUME NEW nm \in BoundedNames, NEW d \in Dirs, NEW B \in SUBSET Dirs, NEW T \in SUBSET Dirs,
         NEW a \in Unambiguous, NEW o \in Auths, NEW b \in Dirs, NEW C \in SUBSET Dirs
  PROVE  [name |-> nm, dir |-> d, bounds |-> B, todo |-> T, auth |-> a, oldauth |-> o,
          bound |-> b, copy |-> C] \in Ops
BY DEF Ops, BoundedNames

(* What was asked for is left alone by a step that keeps dir a root, with   *)
(* its authority.                                                           *)
LEMMA AskedStays ==
  ASSUME Asked, op'.dir = op.dir, op'.bounds = op.bounds, op'.auth = op.auth,
         cached' = cached, parent' = parent, exportbound' = exportbound,
         op.dir \in R', dir_auth'[op.dir] = dir_auth[op.dir]
  PROVE  Asked'
BY DEF Asked, Inside, Under

(* The same facts of the next state.                                        *)
Order ==
  /\ \A x, a \in Dirs : a \in R /\ Under(x, a) => Under(Top[x], a)
  /\ \A x \in Dirs : x \in R <=> Top[x] = x
  /\ \A x \in Dirs : x \in R /\ x # Root => Top[parent[ino[x]]] # x

(* They hold in every state of the right type.                              *)
LEMMA OrderHolds == TypeOK => Order
<1> SUFFICES ASSUME TypeOK PROVE Order
  OBVIOUS
<1>1. \A x, a \in Dirs : a \in R /\ Under(x, a) => Under(Top[x], a)
  BY UnderFacts
<1>2. \A x \in Dirs : x \in R <=> Top[x] = x
  BY UnderFacts
<1>3. \A x \in Dirs : x \in R /\ x # Root => Top[parent[ino[x]]] # x
  BY ParentFacts
<1> QED BY <1>1, <1>2, <1>3 DEF Order

(* The order of the tree and the bounds after a step that moves no inode.   *)
LEMMA NextFacts ==
  ASSUME TypeOK', Fits(parent, R, Top, subtrees)', parent' = parent
  PROVE  /\ \A x, a \in Dirs : a \in R' /\ Under(x, a) => Under(Top'[x], a)
         /\ \A x \in Dirs : x \in R' <=> Top'[x] = x
         /\ \A x \in Dirs : x \in R' /\ x # Root => Top'[parent[ino[x]]] # x
         /\ DOMAIN subtrees' = R'
         /\ \A r \in R' : subtrees'[r] = {c \in R' \ {Root} : Top'[parent[ino[c]]] = r}
<1>1. Order'
  BY OrderHolds, PTL
<1>2. /\ \A x, a \in Dirs : a \in R' /\ Under(x, a) => Under(Top'[x], a)
      /\ \A x \in Dirs : x \in R' <=> Top'[x] = x
      /\ \A x \in Dirs : x \in R' /\ x # Root => Top'[parent[ino[x]]] # x
  BY <1>1 DEF Order, Under
<1>3. /\ DOMAIN subtrees' = R'
      /\ \A r \in R' : subtrees'[r] = {c \in R' \ {Root} : Top'[parent[ino[c]]] = r}
  BY DEF Fits, FitsBut
<1> QED BY <1>2, <1>3

(* adjust_bounded_subtree_auth starts by making dir a root with the new     *)
(* authority: what it asks for is in place, and what lies beneath the       *)
(* bounds has lost its authority only to dir.                               *)
LEMMA StartBoundedKeeps ==
  ASSUME IInv, NEW d \in Dirs, NEW a \in Unambiguous, NEW B \in BoundSets(d),
         adjust_bounded_subtree_auth(d, B, a)
  PROVE  IInv'
<1>1. TypeOK /\ Fits(parent, R, Top, subtrees) /\ d \in cached
  BY DEF IInv, adjust_bounded_subtree_auth, idle
<1>2. PICK n : n = adjust_subtree_auth(Now, d, a)
  OBVIOUS
<1>3. dir_auth[Top[d]] \in Auths /\ a \in Auths
  <2>1. Top[d] \in R /\ Top[d] \in Dirs
    BY <1>1, Facts
  <2> QED BY <1>1, <2>1, AuthIsNoDefault DEF TypeOK, R, Roots
<1>4. PICK old \in Auths : old = dir_auth[Top[d]]
  BY <1>3
<1>5. /\ dir_auth' = n.auth /\ subtrees' = n.sub /\ cached' = cached /\ parent' = parent
      /\ exportbound' = exportbound /\ exportbound \cap Region(d, B) = {}
      /\ op' = [name |-> "bounds", dir |-> d, bounds |-> B, todo |-> B, auth |-> a,
                oldauth |-> old, bound |-> d, copy |-> {}]
      /\ before' = Authorities
  BY <1>1, <1>2, <1>4, AuthorityIs DEF adjust_bounded_subtree_auth, Become, Start, idle
<1>6. /\ B \subseteq cached \ {d} /\ B \in SUBSET Dirs /\ \A b \in B : Under(b, d)
      /\ \A b, c \in B : b # c => ~Under(b, c)
  <2>1. B \in SUBSET {x \in cached \ {d} : Beneath(x, d)} /\ \A b, c \in B : b # c => ~Beneath(b, c)
    BY DEF BoundSets
  <2> QED BY <1>1, <2>1, BeneathIsBeneathIn DEF Under, TypeOK
<1>7. op' \in Ops
  BY <1>4, <1>5, <1>6, BoundedOpMade DEF BoundedNames
<1>8. TypeOK' /\ Fits(parent, R, Top, subtrees)' /\ Delegated(d, a)
  BY <1>1, <1>2, <1>3, <1>5, <1>7, DelegateStep
<1>9. /\ op'.dir = d /\ op'.bounds = B /\ op'.todo = B /\ op'.auth = a /\ op'.oldauth = old
      /\ op'.name = "bounds"
  BY <1>5
<1>10. d \in R' /\ Top'[d] = d /\ dir_auth'[d] = a
  <2>1. d \in R' /\ \A x \in Dirs : x \in R' <=> Top'[x] = x
    BY <1>5, <1>8, NextFacts DEF Delegated
  <2> QED BY <1>8, <2>1 DEF Delegated
<1>11. Asked'
  <2>1. ASSUME NEW x \in cached, Under(x, d), \A b \in B : ~Under(x, b) PROVE x \notin exportbound
    BY <1>5, <2>1, BeneathIsBeneathIn DEF Region, Under
  <2> QED BY <1>5, <1>6, <1>9, <1>10, <2>1 DEF Asked, Inside, Under
<1>12. BoundedInv'
  <2>1. Placed' = {}
    BY <1>9 DEF Placed
  <2> QED BY <1>9, <1>11, <2>1 DEF BoundedInv
<1>13. \A x \in cached : before'[x] = dir_auth[Top[x]] /\ x \in Dirs
  BY <1>1, <1>5, AuthorityIs DEF TypeOK
<1>14. Open' = B
  BY <1>9 DEF Open
<1>15. ASSUME NEW x \in cached, ~Under(x, d) PROVE before'[x] = dir_auth'[Top'[x]]
  BY <1>8, <1>13, <1>15 DEF Delegated
<1>16. ASSUME NEW x \in cached
       PROVE  IF Top'[x] = d THEN before'[x] = old ELSE before'[x] = dir_auth'[Top'[x]]
  BY <1>4, <1>8, <1>13 DEF Delegated
<1>17. AskedAuthority'
  BY <1>5, <1>9, <1>14, <1>15, <1>16 DEF AskedAuthority, Kept, Under
<1> QED BY <1>8, <1>9, <1>12, <1>17 DEF IInv

(* The bound b becomes a root: the bounds placed before stay bounds of dir. *)
LEMMA NewBound ==
  ASSUME TypeOK, Fits(parent, R, Top, subtrees), Asked, op \in Ops, op.name \in BoundedNames,
         NEW b \in op.bounds, b \notin R, NEW v, Delegated(b, v),
         TypeOK', Fits(parent, R, Top, subtrees)', parent' = parent,
         NEW P \in SUBSET op.bounds, P \subseteq subtrees[op.dir]
  PROVE  /\ op.dir \in R' /\ dir_auth'[op.dir] = dir_auth[op.dir]
         /\ b \in R' /\ Top'[parent[ino[b]]] = Top[parent[ino[b]]] /\ Top[b] = Top[parent[ino[b]]]
         /\ P \subseteq subtrees'[op.dir]
         /\ Top[b] = op.dir => b \in subtrees'[op.dir]
         /\ \A x \in Dirs : ~Under(x, b) => Top'[x] = Top[x] /\ dir_auth'[Top[x]] = dir_auth[Top[x]]
         /\ \A x \in Dirs : Under(x, b) => Top'[x] # op.dir
<1>1. /\ op.dir \in Dirs /\ op.dir \in R /\ b \in Dirs /\ b # op.dir /\ Under(b, op.dir)
      /\ \A c \in op.bounds : c # b => ~Under(c, b)
  BY BoundedOp DEF Asked
<1>2. ~Under(op.dir, b)
  BY <1>1, UnderFacts
<1>3. b # Root
  BY DEF TypeOK
<1>4. \A x \in Dirs : ~Under(x, b) => Top'[x] # b
  BY DEF Delegated
<1>5. \A x \in Dirs : ~Under(x, b) => Top'[x] = Top[x] /\ dir_auth'[Top[x]] = dir_auth[Top[x]]
  BY <1>4 DEF Delegated
<1>6. op.dir \in R' /\ b \in R' /\ Top[op.dir] = op.dir
  BY <1>1, UnderFacts DEF Delegated
<1>7. dir_auth'[op.dir] = dir_auth[op.dir]
  BY <1>1, <1>2, <1>5, <1>6
<1>8. parent[ino[b]] \in Dirs /\ Top[b] = Top[parent[ino[b]]] /\ Under(b, parent[ino[b]])
  BY <1>1, <1>3, ParentFacts
<1>9. Top'[parent[ino[b]]] # b
  BY <1>1, <1>3, <1>6, NextFacts
<1>10. Top'[parent[ino[b]]] = Top[parent[ino[b]]]
  BY <1>8, <1>9 DEF Delegated
<1>11. \A r \in R' : subtrees'[r] = {c \in R' \ {Root} : Top'[parent[ino[c]]] = r}
  BY NextFacts
<1>12. ASSUME NEW c \in P PROVE c \in subtrees'[op.dir]
  <2>1. /\ c \in R /\ c \in Dirs /\ c # Root /\ Top[parent[ino[c]]] = op.dir
        /\ parent[ino[c]] \in Dirs /\ c # b
    BY <1>1, Bounds
  <2>2. ~Under(parent[ino[c]], b)
    BY <1>1, <2>1, ParentFacts
  <2>3. Top'[parent[ino[c]]] = op.dir
    BY <1>5, <2>1, <2>2
  <2>4. c \in R'
    BY <2>1 DEF Delegated
  <2> QED BY <1>6, <1>11, <2>1, <2>3, <2>4
<1>13. Top[b] = op.dir => b \in subtrees'[op.dir]
  BY <1>3, <1>6, <1>8, <1>10, <1>11
<1>14. ASSUME NEW x \in Dirs, Under(x, b) PROVE Top'[x] # op.dir
  <2>1. Under(Top'[x], b)
    BY <1>1, <1>6, <1>14, NextFacts
  <2> QED BY <1>2, <2>1
<1> QED BY <1>5, <1>6, <1>7, <1>8, <1>10, <1>12, <1>13, <1>14

(* A step of the loops that leaves the map as it is.                        *)
LEMMA SameMap ==
  ASSUME TypeOK, Fits(parent, R, Top, subtrees), op' \in Ops,
         cached' = cached, parent' = parent, dir_auth' = dir_auth, subtrees' = subtrees
  PROVE  TypeOK' /\ Fits(parent, R, Top, subtrees)' /\ R' = R /\ Top' = Top
<1>1. R' = R /\ Top' = Top
  BY DEF R, Top
<1> QED BY <1>1 DEF TypeOK, Fits, FitsBut

(* What one iteration over the requested bounds does.                       *)
BoundStep(b) ==
  /\ b \in op.todo /\ op' \in Ops
  /\ op'.dir = op.dir /\ op'.bounds = op.bounds /\ op'.auth = op.auth
  /\ op'.oldauth = op.oldauth /\ op'.todo = op.todo \ {b}
  /\ cached' = cached /\ parent' = parent /\ exportbound' = exportbound /\ before' = before
  /\ \/ op'.name = "bounds" /\ (b \in subtrees[op.dir] \/ Top[b] = op.dir)
     \/ op'.name = "swallow" /\ op'.bound = b /\ b \notin subtrees[op.dir] /\ Top[b] # op.dir

(* AdjustBound is such a step, and delegates b where it is no root.         *)
LEMMA BoundStepIs ==
  ASSUME IInv, AdjustBound
  PROVE  \E b \in op.todo :
           /\ BoundStep(b)
           /\ IF b \in R THEN dir_auth' = dir_auth /\ subtrees' = subtrees
              ELSE \E v \in Auths : \E n :
                     /\ v = IF Top[b] = op.dir THEN op.oldauth ELSE dir_auth[Top[b]]
                     /\ n = adjust_subtree_auth(Now, b, v) /\ dir_auth' = n.auth /\ subtrees' = n.sub
<1>1. /\ TypeOK /\ Fits(parent, R, Top, subtrees) /\ op.name = "bounds" /\ op.name \in BoundedNames
      /\ Asked /\ op.todo \subseteq op.bounds /\ op \in Ops
  BY DEF IInv, AdjustBound, BoundedInv, TypeOK, BoundedNames
<1>2. /\ op.dir \in Dirs /\ op.bounds \in SUBSET Dirs /\ op.todo \in SUBSET Dirs
      /\ op.auth \in Unambiguous /\ op.oldauth \in Auths /\ op.bound \in Dirs
      /\ op.copy \in SUBSET Dirs
      /\ op = [name |-> op.name, dir |-> op.dir, bounds |-> op.bounds, todo |-> op.todo,
               auth |-> op.auth, oldauth |-> op.oldauth, bound |-> op.bound, copy |-> op.copy]
  BY <1>1, BoundedOp
<1>3. PICK b \in op.todo :
        LET within == get_subtree_root(Now, b) = op.dir
            t == get_subtree_root(Now, get_parent_dir(b))
            known == b \in subtrees[op.dir]
        IN /\ Become(CASE known -> Now
                      [] ~known /\ within -> adjust_subtree_auth(Now, b, op.oldauth)
                      [] ~known /\ ~within /\ b \in subtrees[t] -> Now
                      [] OTHER -> adjust_subtree_auth(Now, b, authority(Now, t)))
           /\ op' = IF known \/ within
                    THEN [op EXCEPT !.todo = @ \ {b}]
                    ELSE [op EXCEPT !.name = "swallow", !.todo = @ \ {b}, !.bound = b]
  BY DEF AdjustBound
<1>4. cached' = cached /\ parent' = parent /\ exportbound' = exportbound /\ before' = before
  BY DEF AdjustBound
<1>5. b \in Dirs /\ b # op.dir /\ Under(b, op.dir) /\ b # Root /\ op.dir \in R
  <2>1. b \in Dirs /\ b # op.dir /\ Under(b, op.dir) /\ op.dir \in R
    BY <1>1, <1>2 DEF Asked
  <2> QED BY <1>1, <1>2, <2>1, RootIsHighest
<1>6. PICK t : t = Top[parent[ino[b]]]
  OBVIOUS
<1>7. /\ get_subtree_root(Now, b) = Top[b] /\ get_subtree_root(Now, get_parent_dir(b)) = t
      /\ authority(Now, t) = dir_auth[t] /\ t \in R /\ t \in Dirs /\ (b \notin R => Top[b] = t)
  <2>1. parent[ino[b]] \in Dirs /\ (b \notin R => Top[b] = t)
    BY <1>1, <1>5, <1>6, ParentFacts
  <2>2. t \in R /\ t \in Dirs
    BY <1>1, <1>6, <2>1, Facts
  <2>3. Top[t] = t
    BY <1>1, <1>6, <2>1, UnderFacts
  <2> QED BY <1>1, <1>5, <1>6, <2>1, <2>2, <2>3, AuthorityIs DEF get_parent_dir
<1>8. (b \in R => b \in subtrees[t] /\ Top[b] = b) /\ \A r \in R : subtrees[r] \subseteq R
  BY <1>1, <1>5, <1>6, <1>7, FitsFacts, UnderFacts, SMTT(30)
<1>9. op' = IF b \in subtrees[op.dir] \/ Top[b] = op.dir
            THEN [op EXCEPT !.todo = @ \ {b}]
            ELSE [op EXCEPT !.name = "swallow", !.todo = @ \ {b}, !.bound = b]
  BY <1>3, <1>7
<1>10. CASE b \in subtrees[op.dir] \/ Top[b] = op.dir
  <2>1. op' = [name |-> "bounds", dir |-> op.dir, bounds |-> op.bounds, todo |-> op.todo \ {b},
               auth |-> op.auth, oldauth |-> op.oldauth, bound |-> op.bound, copy |-> op.copy]
    BY <1>1, <1>2, <1>9, <1>10
  <2>2. op' \in Ops
    BY <1>2, <2>1, BoundedOpMade DEF BoundedNames
  <2>3. BoundStep(b)
    BY <1>4, <1>10, <2>1, <2>2 DEF BoundStep
  <2>4. b \in R => Become(Now)
    BY <1>3, <1>5, <1>7, <1>8, <1>10
  <2>5. b \notin R => Become(adjust_subtree_auth(Now, b, op.oldauth)) /\ Top[b] = op.dir
    BY <1>3, <1>5, <1>7, <1>8, <1>10
  <2> QED BY <1>2, <2>3, <2>4, <2>5, SMTT(30) DEF Become, Now
<1>11. CASE ~(b \in subtrees[op.dir] \/ Top[b] = op.dir)
  <2>1. op' = [name |-> "swallow", dir |-> op.dir, bounds |-> op.bounds, todo |-> op.todo \ {b},
               auth |-> op.auth, oldauth |-> op.oldauth, bound |-> b, copy |-> op.copy]
    BY <1>1, <1>2, <1>9, <1>11
  <2>2. op' \in Ops
    BY <1>2, <1>5, <2>1, BoundedOpMade DEF BoundedNames
  <2>3. BoundStep(b)
    BY <1>4, <1>11, <2>1, <2>2 DEF BoundStep
  <2>4. b \in R => Become(Now)
    BY <1>3, <1>5, <1>7, <1>8, <1>11
  <2>5. b \notin R => Become(adjust_subtree_auth(Now, b, dir_auth[Top[b]]))
    BY <1>3, <1>5, <1>7, <1>8, <1>11
  <2>6. dir_auth[t] \in Auths
    BY <1>1, <1>7 DEF TypeOK, R, Roots
  <2> QED BY <1>2, <1>7, <1>11, <2>3, <2>4, <2>5, <2>6, SMTT(30) DEF Become, Now
<1> QED BY <1>10, <1>11

(* The invariant of the bounded operation, spelled out for a step that goes *)
(* on to the next bound.                                                    *)
LEMMA BoundStepDone ==
  ASSUME TypeOK, op \in Ops, op.name = "bounds", Asked, AskedAuthority,
         op.todo \subseteq op.bounds, NEW b, BoundStep(b),
         op.dir \in R', dir_auth'[op.dir] = dir_auth[op.dir],
         (op.bounds \ op.todo) \subseteq subtrees'[op.dir],
         op'.name = "bounds" => b \in subtrees'[op.dir],
         op'.name = "swallow" => b \in R' /\ Top'[parent[ino[b]]] # op.dir,
         \A x \in Dirs : ~Under(x, b) =>
           Top'[x] = Top[x] /\ dir_auth'[Top[x]] = dir_auth[Top[x]],
         \A x \in cached : Under(x, b) =>
           before[x] = dir_auth'[Top'[x]] \/ (Many /\ dir_auth'[Top'[x]] = op.oldauth),
         TypeOK', Fits(parent, R, Top, subtrees)'
  PROVE  IInv'
<1>1. /\ op'.dir = op.dir /\ op'.bounds = op.bounds /\ op'.auth = op.auth
      /\ op'.oldauth = op.oldauth /\ op'.todo = op.todo \ {b} /\ cached' = cached
      /\ parent' = parent /\ exportbound' = exportbound /\ before' = before
      /\ op'.name \in {"bounds", "swallow"} /\ (op'.name = "swallow" => op'.bound = b) /\ b \in op.todo
  BY DEF BoundStep
<1>2. Asked'
  BY <1>1, AskedStays
<1>3. BoundedInv'
  <2>1. Placed' \subseteq subtrees'[op.dir]
    <3>1. CASE op'.name = "bounds"
      BY <1>1, <3>1 DEF Placed
    <3>2. CASE op'.name = "swallow"
      BY <1>1, <3>2 DEF Placed
    <3> QED BY <1>1, <3>1, <3>2
  <2> QED BY <1>1, <1>2, <2>1 DEF BoundedInv
<1>4. cached \subseteq Dirs /\ op.bounds \in SUBSET Dirs /\ op.dir \in Dirs
  BY BoundedOp DEF TypeOK, BoundedNames
<1>5. Open = op.todo /\ Open' = op.todo \ {b} /\ Many' = Many
  BY <1>1 DEF Open, Many
<1>6. ASSUME NEW x \in cached, ~Under(x, op.dir) PROVE before[x] = dir_auth'[Top'[x]]
  <2>1. ~Under(x, b)
    <3>1. b \in Dirs /\ Under(b, op.dir)
      BY <1>1, <1>4 DEF Asked
    <3> QED BY <1>4, <1>6, <3>1, UnderFacts
  <2>2. before[x] = dir_auth[Top[x]]
    BY <1>6 DEF AskedAuthority, Kept
  <2> QED BY <1>4, <2>1, <2>2
<1>7. ASSUME NEW x \in cached, NEW c \in op.bounds, Under(x, c)
      PROVE  IF c \in op.todo \ {b}
             THEN IF Top'[x] = op.dir THEN before[x] = op.oldauth \/ Many
                                      ELSE before[x] = dir_auth'[Top'[x]]
             ELSE before[x] = dir_auth'[Top'[x]] \/ (Many /\ dir_auth'[Top'[x]] = op.oldauth)
  <2>1. CASE c = b
    BY <1>7, <2>1
  <2>2. CASE c # b
    <3>1. ~Under(x, b)
      <4>1. b \in op.bounds /\ ~Under(b, c) /\ ~Under(c, b)
        BY <1>1, <2>2 DEF Asked
      <4> QED BY <1>4, <1>7, <4>1, UnderFacts
    <3>2. Top'[x] = Top[x] /\ dir_auth'[Top[x]] = dir_auth[Top[x]]
      BY <1>4, <3>1
    <3>3. IF c \in op.todo
          THEN IF Top[x] = op.dir THEN before[x] = op.oldauth \/ Many
                                  ELSE before[x] = dir_auth[Top[x]]
          ELSE before[x] = dir_auth[Top[x]] \/ (Many /\ dir_auth[Top[x]] = op.oldauth)
      BY <1>5, <1>7 DEF AskedAuthority, Kept
    <3> QED BY <2>2, <3>2, <3>3
  <2> QED BY <2>1, <2>2
<1>8. AskedAuthority'
  BY <1>1, <1>5, <1>6, <1>7, SMTT(30) DEF AskedAuthority, Kept, Under
<1> QED BY <1>1, <1>3, <1>8 DEF IInv

(* One iteration of the loop over the requested bounds keeps the invariant. *)
LEMMA AdjustBoundKeeps ==
  ASSUME IInv, AdjustBound
  PROVE  IInv'
<1>1. /\ TypeOK /\ Fits(parent, R, Top, subtrees) /\ op.name = "bounds" /\ op.name \in BoundedNames
      /\ Asked /\ op.bounds \ op.todo \subseteq subtrees[op.dir] /\ AskedAuthority /\ op \in Ops
      /\ op.todo \subseteq op.bounds
  BY DEF IInv, AdjustBound, BoundedInv, Placed, TypeOK, BoundedNames
<1>2. PICK b \in op.todo :
        /\ BoundStep(b)
        /\ IF b \in R THEN dir_auth' = dir_auth /\ subtrees' = subtrees
           ELSE \E v \in Auths : \E n :
                  /\ v = IF Top[b] = op.dir THEN op.oldauth ELSE dir_auth[Top[b]]
                  /\ n = adjust_subtree_auth(Now, b, v) /\ dir_auth' = n.auth /\ subtrees' = n.sub
  BY BoundStepIs
<1>3. /\ cached' = cached /\ parent' = parent /\ op' \in Ops
      /\ (op'.name = "bounds" => b \in subtrees[op.dir] \/ Top[b] = op.dir)
      /\ (op'.name = "swallow" => b \notin subtrees[op.dir] /\ Top[b] # op.dir)
  BY <1>2 DEF BoundStep
<1>4. /\ op.dir \in Dirs /\ op.dir \in R /\ b \in Dirs /\ b \in cached /\ b \in op.bounds
      /\ b # op.dir /\ Under(b, op.dir) /\ cached \subseteq Dirs
  BY <1>1, BoundedOp DEF Asked, TypeOK
<1>5. ~Under(op.dir, b)
  BY <1>1, <1>4, UnderFacts
<1>6. ASSUME NEW x \in cached, Under(x, b)
      PROVE  IF Top[x] = op.dir THEN before[x] = op.oldauth \/ Many
                                ELSE before[x] = dir_auth[Top[x]]
  <2>1. b \in Open
    BY <1>1 DEF Open
  <2> QED BY <1>1, <1>4, <1>6, <2>1 DEF AskedAuthority, Kept
<1>7. CASE b \in R
  <2>1. dir_auth' = dir_auth /\ subtrees' = subtrees
    BY <1>2, <1>7
  <2>2. TypeOK' /\ Fits(parent, R, Top, subtrees)' /\ R' = R /\ Top' = Top
    BY <1>1, <1>3, <2>1, SameMap
  <2>3. op'.name = "bounds" => b \in subtrees[op.dir]
    BY <1>1, <1>3, <1>4, <1>7, UnderFacts
  <2>4. op'.name = "swallow" => Top[parent[ino[b]]] # op.dir
    <3>1. b # Root
      BY <1>1, <1>4, RootIsHighest
    <3> QED BY <1>1, <1>3, <1>4, <1>7, <3>1, FitsFacts
  <2>5. \A x \in cached : Under(x, b) => Top[x] # op.dir
    BY <1>1, <1>4, <1>5, <1>7, UnderFacts
  <2>6. \A x \in cached : Under(x, b) => before[x] = dir_auth'[Top'[x]]
    BY <1>6, <2>1, <2>2, <2>5
  <2> QED BY <1>1, <1>2, <1>4, <1>7, <2>1, <2>2, <2>3, <2>4, <2>6, BoundStepDone
<1>8. CASE b \notin R
  <2>1. PICK v \in Auths : \E n :
          /\ v = IF Top[b] = op.dir THEN op.oldauth ELSE dir_auth[Top[b]]
          /\ n = adjust_subtree_auth(Now, b, v) /\ dir_auth' = n.auth /\ subtrees' = n.sub
    BY <1>2, <1>8
  <2>0. PICK n :
          n = adjust_subtree_auth(Now, b, v) /\ dir_auth' = n.auth /\ subtrees' = n.sub
    BY <2>1
  <2>2. TypeOK' /\ Fits(parent, R, Top, subtrees)' /\ Delegated(b, v)
    BY <1>1, <1>3, <1>4, <2>0, DelegateStep
  <2>3. PICK P \in SUBSET op.bounds : P = op.bounds \ op.todo
    OBVIOUS
  <2>4. /\ op.dir \in R' /\ dir_auth'[op.dir] = dir_auth[op.dir]
        /\ b \in R' /\ Top'[parent[ino[b]]] = Top[parent[ino[b]]] /\ Top[b] = Top[parent[ino[b]]]
        /\ P \subseteq subtrees'[op.dir]
        /\ Top[b] = op.dir => b \in subtrees'[op.dir]
        /\ \A x \in Dirs : ~Under(x, b) => Top'[x] = Top[x] /\ dir_auth'[Top[x]] = dir_auth[Top[x]]
        /\ \A x \in Dirs : Under(x, b) => Top'[x] # op.dir
    BY <1>1, <1>3, <1>4, <1>8, <2>2, <2>3, NewBound
  <2>5. ASSUME NEW x \in cached, Under(x, b)
        PROVE  before[x] = dir_auth'[Top'[x]] \/ (Many /\ dir_auth'[Top'[x]] = op.oldauth)
    <3>1. CASE Top'[x] = b
      <4>1. dir_auth'[Top'[x]] = v /\ Top[x] = Top[b]
        BY <1>4, <2>2, <3>1 DEF Delegated
      <4> QED BY <1>6, <2>1, <2>5, <4>1
    <3>2. CASE Top'[x] # b
      <4>1. Top'[x] = Top[x] /\ dir_auth'[Top[x]] = dir_auth[Top[x]] /\ Top[x] # op.dir
        BY <1>4, <2>2, <2>4, <2>5, <3>2 DEF Delegated
      <4> QED BY <1>6, <2>5, <4>1
    <3> QED BY <3>1, <3>2
  <2>6. b \notin subtrees[op.dir]
    BY <1>1, <1>4, <1>8, Bounds
  <2>7. op'.name = "bounds" => b \in subtrees'[op.dir]
    BY <1>3, <2>4, <2>6
  <2>8. op'.name = "swallow" => Top'[parent[ino[b]]] # op.dir
    BY <1>3, <2>4
  <2> QED BY <1>1, <1>2, <2>2, <2>3, <2>4, <2>5, <2>7, <2>8, BoundStepDone
<1> QED BY <1>7, <1>8

(* An intervening subtree t of dir is swallowed.                            *)
LEMMA Swallowed ==
  ASSUME TypeOK, Fits(parent, R, Top, subtrees), op \in Ops, op.name \in BoundedNames, Asked,
         NEW t \in subtrees[op.dir], \A c \in op.bounds : ~Under(t, c),
         NEW n, n = try_subtree_merge_at(adjust_subtree_auth(Now, t, op.auth), t),
         dir_auth' = n.auth, subtrees' = n.sub, cached' = cached, parent' = parent, op' \in Ops
  PROVE  /\ TypeOK' /\ Fits(parent, R, Top, subtrees)' /\ R' = R \ {t}
         /\ op.dir \in R' /\ dir_auth'[op.dir] = dir_auth[op.dir]
         /\ \A x \in Dirs : Top'[x] = IF Top[x] = t THEN op.dir ELSE Top[x]
         /\ \A x \in Dirs : Top[x] # t => dir_auth'[Top'[x]] = dir_auth[Top[x]]
         /\ subtrees[op.dir] \ {t} \subseteq subtrees'[op.dir]
         /\ \A x \in Dirs : ~Under(x, op.dir) => Top[x] # t
         /\ \A c \in op.bounds, x \in Dirs : c \in R /\ Under(x, c) => Top[x] # t
<1>1. /\ op.dir \in Dirs /\ op.dir \in R /\ op.auth \in Unambiguous /\ op.bounds \in SUBSET Dirs
      /\ dir_auth[op.dir] = op.auth
  BY BoundedOp DEF Asked
<1>2. t \in R /\ t \in Dirs /\ t # Root /\ t # op.dir /\ Under(t, op.dir) /\ Top[parent[ino[t]]] = op.dir
  BY <1>1, Bounds
<1>3. t \notin exportbound
  BY <1>2 DEF Asked, Inside, TypeOK
<1>4. PICK a \in Unambiguous : a = op.auth
  BY <1>1
<1>5. TypeOK' /\ Fits(parent, R, Top, subtrees)' /\ Absorbed(t)
  BY <1>1, <1>2, <1>3, <1>4, AbsorbStep
<1>6. /\ R' = R \ {t} /\ \A x \in Dirs : Top'[x] = IF Top[x] = t THEN op.dir ELSE Top[x]
      /\ \A r \in R' : dir_auth'[r] = dir_auth[r]
  BY <1>2, <1>5 DEF Absorbed
<1>7. op.dir \in R' /\ dir_auth'[op.dir] = dir_auth[op.dir]
  BY <1>1, <1>2, <1>6
<1>8. \A x \in Dirs : Top[x] # t => dir_auth'[Top'[x]] = dir_auth[Top[x]]
  BY <1>6, Facts
<1>9. ASSUME NEW s \in subtrees[op.dir], s # t PROVE s \in subtrees'[op.dir]
  <2>1. s \in R /\ s # Root /\ Top[parent[ino[s]]] = op.dir /\ parent[ino[s]] \in Dirs
    BY <1>1, Bounds
  <2>2. Top'[parent[ino[s]]] = op.dir /\ s \in R'
    BY <1>6, <1>9, <2>1
  <2> QED BY <1>5, <1>7, <2>1, <2>2, NextFacts
<1>10. \A x \in Dirs : ~Under(x, op.dir) => Top[x] # t
  BY <1>1, <1>2, UnderFacts
<1>11. \A c \in op.bounds, x \in Dirs : c \in R /\ Under(x, c) => Top[x] # t
  BY <1>1, UnderFacts, SMTT(30)
<1> QED BY <1>5, <1>6, <1>7, <1>8, <1>9, <1>10, <1>11

(* One iteration of while (1), which swallows the subtree between a bound   *)
(* and dir, keeps the invariant.                                            *)
LEMMA SwallowAboveKeeps ==
  ASSUME IInv, SwallowAbove
  PROVE  IInv'
<1>1. /\ TypeOK /\ Fits(parent, R, Top, subtrees) /\ op.name = "swallow" /\ op.name \in BoundedNames
      /\ Asked /\ (op.bounds \ op.todo) \ {op.bound} \subseteq subtrees[op.dir] /\ AskedAuthority
      /\ op \in Ops /\ op.todo \subseteq op.bounds
      /\ op.bound \in (op.bounds \ op.todo) \cap R /\ Top[parent[ino[op.bound]]] # op.dir
  BY DEF IInv, SwallowAbove, BoundedInv, Placed, TypeOK, BoundedNames
<1>2. /\ op.dir \in Dirs /\ op.bounds \in SUBSET Dirs /\ op.todo \in SUBSET Dirs
      /\ op.auth \in Unambiguous /\ op.oldauth \in Auths /\ op.bound \in Dirs
      /\ op.copy \in SUBSET Dirs
      /\ op = [name |-> op.name, dir |-> op.dir, bounds |-> op.bounds, todo |-> op.todo,
               auth |-> op.auth, oldauth |-> op.oldauth, bound |-> op.bound, copy |-> op.copy]
  BY <1>1, BoundedOp
<1>3. /\ op.dir \in R /\ op.bound # op.dir /\ Under(op.bound, op.dir) /\ cached \subseteq Dirs
      /\ \A c \in op.bounds : c # op.bound => ~Under(op.bound, c)
  BY <1>1 DEF Asked, TypeOK
<1>4. op.bound # Root /\ Top[op.bound] = op.bound
  BY <1>1, <1>2, <1>3, RootIsHighest, UnderFacts, SMTT(30)
<1>5. PICK t : t = CHOOSE x \in subtrees[op.dir] : Beneath(op.bound, x)
  OBVIOUS
<1>6. t \in subtrees[op.dir] /\ Under(op.bound, t)
  <2>1. \E x \in subtrees[op.dir] : Under(op.bound, x)
    BY <1>1, <1>2, <1>3, <1>4, InOrBeyond
  <2>2. \A x : Beneath(op.bound, x) = Under(op.bound, x)
    BY BeneathIsBeneathIn DEF Under
  <2> QED BY <1>5, <2>1, <2>2
<1>7. t \in R /\ t \in Dirs /\ t # op.bound
  BY <1>1, <1>3, <1>6, Bounds, SMTT(30)
<1>8. \A c \in op.bounds : ~Under(t, c)
  BY <1>1, <1>2, <1>3, <1>6, <1>7, UnderFacts
<1>9. PICK n : n = try_subtree_merge_at(adjust_subtree_auth(Now, t, op.auth), t)
  OBVIOUS
<1>10. PICK nm \in {"bounds", "swallow"} :
         nm = IF get_subtree_root(n, get_parent_dir(op.bound)) = op.dir THEN "bounds" ELSE "swallow"
  OBVIOUS
<1>11. /\ dir_auth' = n.auth /\ subtrees' = n.sub /\ cached' = cached /\ parent' = parent
       /\ exportbound' = exportbound /\ before' = before /\ op' = [op EXCEPT !.name = nm]
  BY <1>5, <1>9, <1>10 DEF SwallowAbove, Become
<1>12. op' = [name |-> nm, dir |-> op.dir, bounds |-> op.bounds, todo |-> op.todo,
              auth |-> op.auth, oldauth |-> op.oldauth, bound |-> op.bound, copy |-> op.copy]
  BY <1>2, <1>11
<1>13. op' \in Ops
  BY <1>2, <1>10, <1>12, BoundedOpMade DEF BoundedNames
<1>14. /\ TypeOK' /\ Fits(parent, R, Top, subtrees)' /\ R' = R \ {t}
       /\ op.dir \in R' /\ dir_auth'[op.dir] = dir_auth[op.dir]
       /\ \A x \in Dirs : Top'[x] = IF Top[x] = t THEN op.dir ELSE Top[x]
       /\ \A x \in Dirs : Top[x] # t => dir_auth'[Top'[x]] = dir_auth[Top[x]]
       /\ subtrees[op.dir] \ {t} \subseteq subtrees'[op.dir]
       /\ \A x \in Dirs : ~Under(x, op.dir) => Top[x] # t
       /\ \A c \in op.bounds, x \in Dirs : c \in R /\ Under(x, c) => Top[x] # t
  BY <1>1, <1>6, <1>8, <1>9, <1>11, <1>13, Swallowed
<1>15. parent[ino[op.bound]] \in Dirs
  BY <1>1, <1>2, <1>4, ParentFacts
<1>16. nm = IF Top'[parent[ino[op.bound]]] = op.dir THEN "bounds" ELSE "swallow"
  <2>1. Top' = Tops(n.auth)
    BY <1>11 DEF Top, Tops
  <2> QED BY <1>10, <1>15, <2>1, TopIsRoot DEF get_parent_dir
<1>17. /\ op'.dir = op.dir /\ op'.bounds = op.bounds /\ op'.auth = op.auth /\ op'.todo = op.todo
       /\ op'.oldauth = op.oldauth /\ op'.bound = op.bound /\ op'.name = nm
  BY <1>12
<1>18. Asked'
  BY <1>1, <1>11, <1>14, <1>17, AskedStays
<1>19. (op.bounds \ op.todo) \ {op.bound} \subseteq subtrees'[op.dir]
  <2>1. \A c \in op.bounds : c # t
    BY <1>1, <1>2, <1>7, <1>8, UnderFacts
  <2> QED BY <1>1, <1>14, <2>1
<1>20. op.bound \in R'
  BY <1>1, <1>7, <1>14
<1>21. BoundedInv'
  <2>1. CASE nm = "bounds"
    <3>1. op.bound \in subtrees'[op.dir]
      BY <1>4, <1>11, <1>14, <1>16, <1>20, <2>1, NextFacts, SMTT(30)
    <3>2. Placed' \subseteq subtrees'[op.dir]
      BY <1>17, <1>19, <2>1, <3>1 DEF Placed
    <3> QED BY <1>1, <1>17, <1>18, <2>1, <3>2 DEF BoundedInv
  <2>2. CASE nm = "swallow"
    <3>1. Placed' \subseteq subtrees'[op.dir]
      BY <1>17, <1>19, <2>2 DEF Placed
    <3>2. Top'[parent[ino[op.bound]]] # op.dir
      BY <1>16, <2>2
    <3> QED BY <1>1, <1>11, <1>17, <1>18, <1>20, <2>2, <3>1, <3>2 DEF BoundedInv
  <2> QED BY <1>10, <2>1, <2>2
<1>22. Open = op.todo /\ Open' = op.todo /\ Many' = Many
  BY <1>1, <1>10, <1>17, SMTT(30) DEF Open, Many
<1>23. ASSUME NEW x \in cached, ~Under(x, op.dir) PROVE before[x] = dir_auth'[Top'[x]]
  <2>1. before[x] = dir_auth[Top[x]]
    BY <1>1, <1>23 DEF AskedAuthority, Kept
  <2> QED BY <1>3, <1>14, <1>23, <2>1
<1>24. ASSUME NEW x \in cached, NEW c \in op.bounds, Under(x, c)
       PROVE  IF c \in op.todo
              THEN IF Top'[x] = op.dir THEN before[x] = op.oldauth \/ Many
                                       ELSE before[x] = dir_auth'[Top'[x]]
              ELSE before[x] = dir_auth'[Top'[x]] \/ (Many /\ dir_auth'[Top'[x]] = op.oldauth)
  <2>1. IF c \in op.todo
        THEN IF Top[x] = op.dir THEN before[x] = op.oldauth \/ Many
                                ELSE before[x] = dir_auth[Top[x]]
        ELSE before[x] = dir_auth[Top[x]] \/ (Many /\ dir_auth[Top[x]] = op.oldauth)
    BY <1>1, <1>22, <1>24 DEF AskedAuthority, Kept
  <2>2. CASE Top[x] # t
    <3>1. Top'[x] = Top[x] /\ dir_auth'[Top'[x]] = dir_auth[Top[x]]
      BY <1>3, <1>14, <2>2
    <3> QED BY <2>1, <3>1
  <2>3. CASE Top[x] = t
    <3>1. c \notin R
      BY <1>3, <1>14, <1>24, <2>3
    <3>2. c \in op.todo
      <4>1. c \notin subtrees[op.dir] /\ c # op.bound
        BY <1>1, <1>3, <3>1, Bounds
      <4> QED BY <1>1, <4>1
    <3>3. Many
      BY <1>1, <1>2, <3>2 DEF Many
    <3>4. Top'[x] = op.dir
      BY <1>3, <1>14, <2>3
    <3> QED BY <3>2, <3>3, <3>4
  <2> QED BY <2>2, <2>3
<1>25. AskedAuthority'
  BY <1>11, <1>17, <1>22, <1>23, <1>24 DEF AskedAuthority, Kept, Under
<1> QED BY <1>10, <1>14, <1>17, <1>21, <1>25 DEF IInv

(* Between the loops the map stays, and every requested bound is placed.    *)
LEMMA LoopKeeps ==
  ASSUME IInv, op.name \in BoundedNames, op.name = "bounds" => op.todo = {}, op.name # "swallow",
         cached' = cached, parent' = parent, dir_auth' = dir_auth, subtrees' = subtrees,
         exportbound' = exportbound, before' = before, op' \in Ops,
         op'.name \in {"strays", "verify"},
         op'.dir = op.dir, op'.bounds = op.bounds, op'.auth = op.auth, op'.oldauth = op.oldauth,
         op'.name = "strays" => op'.todo \subseteq subtrees[op.dir]
                                /\ \A s \in op'.copy \ op'.todo : s \in op.bounds \/ s \notin R,
         op'.name = "verify" => subtrees[op.dir] = op.bounds
  PROVE  IInv'
<1>1. /\ TypeOK /\ Fits(parent, R, Top, subtrees) /\ Asked /\ AskedAuthority
      /\ op.bounds \subseteq subtrees[op.dir] /\ Open = {}
  BY DEF IInv, BoundedInv, Placed, BoundedNames, Open
<1>2. TypeOK' /\ Fits(parent, R, Top, subtrees)' /\ R' = R /\ Top' = Top
  BY <1>1, SameMap
<1>3. Asked'
  BY <1>1, <1>2, AskedStays DEF Asked
<1>4. BoundedInv'
  <2>1. Placed' = op.bounds
    BY DEF Placed
  <2> QED BY <1>1, <1>2, <1>3, <2>1 DEF BoundedInv
<1>5. AskedAuthority'
  <2>1. Open' = {} /\ Many' = Many
    BY SMTT(30) DEF Open, Many
  <2> QED BY <1>1, <1>2, <2>1 DEF AskedAuthority, Kept, Under
<1> QED BY <1>2, <1>4, <1>5 DEF IInv

(* After the loop over the bounds every requested bound is a bound.         *)
LEMMA BoundsDoneKeeps ==
  ASSUME IInv, BoundsDone
  PROVE  IInv'
<1>1. TypeOK /\ op.name = "bounds" /\ op.todo = {} /\ op \in Ops /\ op.name \in BoundedNames
      /\ Fits(parent, R, Top, subtrees) /\ Asked
  BY DEF IInv, BoundsDone, TypeOK, BoundedNames, BoundedInv
<1>2. /\ op.dir \in Dirs /\ op.bounds \in SUBSET Dirs
      /\ op.auth \in Unambiguous /\ op.oldauth \in Auths /\ op.bound \in Dirs
      /\ op = [name |-> op.name, dir |-> op.dir, bounds |-> op.bounds, todo |-> op.todo,
               auth |-> op.auth, oldauth |-> op.oldauth, bound |-> op.bound, copy |-> op.copy]
  BY <1>1, BoundedOp
<1>3. PICK S \in SUBSET Dirs : S = subtrees[op.dir]
  <2>1. subtrees[op.dir] \in SUBSET Dirs
    BY <1>1, Bounds DEF Asked
  <2> QED BY <2>1
<1>4. op' = [name |-> "strays", dir |-> op.dir, bounds |-> op.bounds, todo |-> S,
             auth |-> op.auth, oldauth |-> op.oldauth, bound |-> op.bound, copy |-> S]
  BY <1>2, <1>3 DEF BoundsDone
<1>5. op' \in Ops
  BY <1>2, <1>3, <1>4, BoundedOpMade DEF BoundedNames
<1> QED BY <1>1, <1>3, <1>4, <1>5, LoopKeeps DEF BoundsDone

(* After the loop over the strays the bounds are exactly the requested ones *)
(* (verify_subtree_bounds).                                                 *)
LEMMA StraysDoneKeeps ==
  ASSUME IInv, StraysDone
  PROVE  IInv'
<1>1. /\ TypeOK /\ op.name = "strays" /\ op.todo = {} /\ op \in Ops /\ op.name \in BoundedNames
      /\ Fits(parent, R, Top, subtrees) /\ Asked /\ op.bounds \subseteq subtrees[op.dir]
      /\ \A s \in op.copy : s \in op.bounds \/ s \notin R
  BY DEF IInv, StraysDone, TypeOK, BoundedNames, BoundedInv, Placed
<1>2. /\ op.dir \in Dirs /\ op.bounds \in SUBSET Dirs /\ op.todo \in SUBSET Dirs
      /\ op.auth \in Unambiguous /\ op.oldauth \in Auths /\ op.bound \in Dirs
      /\ op.copy \in SUBSET Dirs
      /\ op = [name |-> op.name, dir |-> op.dir, bounds |-> op.bounds, todo |-> op.todo,
               auth |-> op.auth, oldauth |-> op.oldauth, bound |-> op.bound, copy |-> op.copy]
  BY <1>1, BoundedOp
<1>3. /\ cached' = cached /\ parent' = parent /\ dir_auth' = dir_auth /\ subtrees' = subtrees
      /\ exportbound' = exportbound /\ before' = before
      /\ op' = IF subtrees[op.dir] \in {{}, op.copy} THEN [op EXCEPT !.name = "verify"]
               ELSE [op EXCEPT !.todo = subtrees[op.dir], !.copy = subtrees[op.dir]]
  BY DEF StraysDone
<1>4. subtrees[op.dir] \in SUBSET Dirs /\ subtrees[op.dir] \subseteq R
  BY <1>1, Bounds DEF Asked
<1>5. CASE subtrees[op.dir] \in {{}, op.copy}
  <2>1. subtrees[op.dir] = op.bounds
    BY <1>1, <1>4, <1>5
  <2>2. op' = [name |-> "verify", dir |-> op.dir, bounds |-> op.bounds, todo |-> op.todo,
               auth |-> op.auth, oldauth |-> op.oldauth, bound |-> op.bound, copy |-> op.copy]
    BY <1>2, <1>3, <1>5
  <2>3. op' \in Ops
    BY <1>2, <2>2, BoundedOpMade DEF BoundedNames
  <2> QED BY <1>1, <1>3, <2>1, <2>2, <2>3, LoopKeeps
<1>6. CASE subtrees[op.dir] \notin {{}, op.copy}
  <2>1. PICK S \in SUBSET Dirs : S = subtrees[op.dir]
    BY <1>4
  <2>2. op' = [name |-> "strays", dir |-> op.dir, bounds |-> op.bounds, todo |-> S,
               auth |-> op.auth, oldauth |-> op.oldauth, bound |-> op.bound, copy |-> S]
    BY <1>1, <1>2, <1>3, <1>6, <2>1
  <2>3. op' \in Ops
    BY <1>2, <2>1, <2>2, BoundedOpMade DEF BoundedNames
  <2> QED BY <1>1, <1>3, <2>1, <2>2, <2>3, LoopKeeps, SMTT(30)
<1> QED BY <1>5, <1>6

(* Swallowing a bound nobody asked for keeps the invariant.                 *)
LEMMA SwallowStrayKeeps ==
  ASSUME IInv, SwallowStray
  PROVE  IInv'
<1>1. /\ TypeOK /\ op.name = "strays" /\ op \in Ops /\ op.name \in BoundedNames
      /\ Fits(parent, R, Top, subtrees) /\ Asked /\ op.bounds \subseteq subtrees[op.dir]
      /\ op.todo \subseteq subtrees[op.dir] /\ AskedAuthority
      /\ \A s \in op.copy \ op.todo : s \in op.bounds \/ s \notin R
  BY DEF IInv, SwallowStray, TypeOK, BoundedNames, BoundedInv, Placed
<1>2. /\ op.dir \in Dirs /\ op.bounds \in SUBSET Dirs /\ op.todo \in SUBSET Dirs
      /\ op.auth \in Unambiguous /\ op.oldauth \in Auths /\ op.bound \in Dirs
      /\ op.copy \in SUBSET Dirs
      /\ op = [name |-> op.name, dir |-> op.dir, bounds |-> op.bounds, todo |-> op.todo,
               auth |-> op.auth, oldauth |-> op.oldauth, bound |-> op.bound, copy |-> op.copy]
  BY <1>1, BoundedOp
<1>3. PICK s \in op.todo :
        /\ Become(IF s \in op.bounds THEN Now
                  ELSE try_subtree_merge_at(adjust_subtree_auth(Now, s, op.auth), s))
        /\ op' = [op EXCEPT !.todo = @ \ {s}]
  BY DEF SwallowStray
<1>4. cached' = cached /\ parent' = parent /\ exportbound' = exportbound /\ before' = before
  BY DEF SwallowStray
<1>5. op' = [name |-> "strays", dir |-> op.dir, bounds |-> op.bounds, todo |-> op.todo \ {s},
             auth |-> op.auth, oldauth |-> op.oldauth, bound |-> op.bound, copy |-> op.copy]
  BY <1>1, <1>2, <1>3
<1>6. op' \in Ops
  BY <1>2, <1>5, BoundedOpMade DEF BoundedNames
<1>7. CASE s \in op.bounds
  <2>1. dir_auth' = dir_auth /\ subtrees' = subtrees
    BY <1>3, <1>7, SMTT(30) DEF Become, Now
  <2>2. op'.todo \subseteq subtrees[op.dir] /\ \A u \in op'.copy \ op'.todo : u \in op.bounds \/ u \notin R
    BY <1>1, <1>5, <1>7
  <2> QED BY <1>1, <1>4, <1>5, <1>6, <2>1, <2>2, LoopKeeps
<1>8. CASE s \notin op.bounds
  <2>1. PICK n : n = try_subtree_merge_at(adjust_subtree_auth(Now, s, op.auth), s)
    OBVIOUS
  <2>2. dir_auth' = n.auth /\ subtrees' = n.sub
    BY <1>3, <1>8, <2>1 DEF Become
  <2>3. op.dir \in R /\ s \in subtrees[op.dir] /\ cached \subseteq Dirs
    BY <1>1 DEF Asked, TypeOK
  <2>4. \A c \in op.bounds : ~Under(s, c)
    BY <1>1, <1>8, <2>3, BoundsApart
  <2>5. /\ TypeOK' /\ Fits(parent, R, Top, subtrees)' /\ R' = R \ {s}
        /\ op.dir \in R' /\ dir_auth'[op.dir] = dir_auth[op.dir]
        /\ \A x \in Dirs : Top'[x] = IF Top[x] = s THEN op.dir ELSE Top[x]
        /\ \A x \in Dirs : Top[x] # s => dir_auth'[Top'[x]] = dir_auth[Top[x]]
        /\ subtrees[op.dir] \ {s} \subseteq subtrees'[op.dir]
        /\ \A x \in Dirs : ~Under(x, op.dir) => Top[x] # s
        /\ \A c \in op.bounds, x \in Dirs : c \in R /\ Under(x, c) => Top[x] # s
    BY <1>1, <1>4, <1>6, <2>1, <2>2, <2>3, <2>4, Swallowed
  <2>6. /\ op'.dir = op.dir /\ op'.bounds = op.bounds /\ op'.auth = op.auth
        /\ op'.todo = op.todo \ {s} /\ op'.oldauth = op.oldauth /\ op'.copy = op.copy
        /\ op'.name = "strays"
    BY <1>5
  <2>7. Asked'
    BY <1>1, <1>4, <2>5, <2>6, AskedStays
  <2>8. BoundedInv'
    <3>1. Placed' = op.bounds
      BY <2>6 DEF Placed
    <3>2. op.bounds \subseteq subtrees'[op.dir] /\ op.todo \ {s} \subseteq subtrees'[op.dir]
      BY <1>1, <1>8, <2>5
    <3>3. \A u \in op.copy \ (op.todo \ {s}) : u \in op.bounds \/ u \notin R'
      BY <1>1, <2>5
    <3> QED BY <2>6, <2>7, <3>1, <3>2, <3>3 DEF BoundedInv
  <2>9. Open = {} /\ Open' = {} /\ Many' = Many
    BY <1>1, <2>6 DEF Open, Many
  <2>10. ASSUME NEW x \in cached, ~Under(x, op.dir) PROVE before[x] = dir_auth'[Top'[x]]
    <3>1. before[x] = dir_auth[Top[x]]
      BY <1>1, <2>10 DEF AskedAuthority, Kept
    <3> QED BY <2>3, <2>5, <2>10, <3>1
  <2>11. ASSUME NEW x \in cached, NEW c \in op.bounds, Under(x, c)
         PROVE  before[x] = dir_auth'[Top'[x]] \/ (Many /\ dir_auth'[Top'[x]] = op.oldauth)
    <3>1. before[x] = dir_auth[Top[x]] \/ (Many /\ dir_auth[Top[x]] = op.oldauth)
      BY <1>1, <2>9, <2>11 DEF AskedAuthority, Kept
    <3>2. c \in R
      BY <1>1, <2>3, Bounds
    <3>3. dir_auth'[Top'[x]] = dir_auth[Top[x]]
      BY <2>3, <2>5, <2>11, <3>2
    <3> QED BY <3>1, <3>3
  <2>12. AskedAuthority'
    BY <1>4, <2>6, <2>9, <2>10, <2>11 DEF AskedAuthority, Kept, Under
  <2> QED BY <2>5, <2>6, <2>8, <2>12 DEF IInv
<1> QED BY <1>7, <1>8
-----------------------------------------------------------------------------
(* A rename gives the inode i another parent dirfrag, w.                    *)
Moves(par, q, i, w) ==
  /\ i \in Inodes \ {ino[Root]} /\ w \in Dirs
  /\ q \in [Inodes \ {ino[Root]} -> Dirs] /\ q[i] = w
  /\ \A j \in Inodes \ {ino[Root]} : j # i => q[j] = par[j]

(* x lies beneath no dirfrag of i.                                          *)
Clear(par, i, x) == \A d \in Dirs : ino[d] = i => ~BeneathIn(par, x, d)

(* The parent of what lies clear of i does not change when i moves.         *)
LEMMA ClearParent ==
  ASSUME NEW par, Tree(par), NEW q, NEW i, NEW w, Moves(par, q, i, w),
         NEW x \in Dirs, x # Root, Clear(par, i, x)
  PROVE  ino[x] # i /\ q[ino[x]] = par[ino[x]] /\ par[ino[x]] \in Dirs /\ Clear(par, i, par[ino[x]])
<1>1. ino[x] # i
  BY BeneathSelf DEF Clear
<1>2. par[ino[x]] \in Dirs /\ ino[x] \in Inodes \ {ino[Root]}
  BY ParentIsDir
<1>3. q[ino[x]] = par[ino[x]]
  BY <1>1, <1>2 DEF Moves
<1>4. Clear(par, i, par[ino[x]])
  BY BeneathUnfold DEF Clear
<1> QED BY <1>1, <1>2, <1>3, <1>4

(* The tree stays a tree when w is not beneath what moves.                  *)
LEMMA MovedTree ==
  ASSUME NEW par, Tree(par), NEW q, NEW i, NEW w, Moves(par, q, i, w), Clear(par, i, w)
  PROVE  Tree(q)
<1>1. SUFFICES ASSUME NEW S \in SUBSET (Dirs \ {Root}), S # {} PROVE \E d \in S : q[ino[d]] \notin S
  BY DEF Tree, Moves
<1>2. CASE \E d \in S : ino[d] = i
  <2> DEFINE T == {x \in S : Clear(par, i, x)}
  <2>1. SUFFICES ASSUME w \in S PROVE \E d \in S : q[ino[d]] \notin S
    BY <1>2 DEF Moves
  <2>2. T # {} /\ T \in SUBSET (Dirs \ {Root})
    BY <2>1
  <2>3. PICK m \in T : par[ino[m]] \notin T
    BY <2>2 DEF Tree
  <2>4. q[ino[m]] = par[ino[m]] /\ Clear(par, i, par[ino[m]])
    BY ClearParent, SMTT(30)
  <2> QED BY <2>3, <2>4
<1>3. CASE \A d \in S : ino[d] # i
  <2>1. PICK m \in S : par[ino[m]] \notin S
    BY <1>1 DEF Tree
  <2>2. ino[m] \in Inodes \ {ino[Root]}
    BY ParentIsDir
  <2> QED BY <1>3, <2>1, <2>2 DEF Moves
<1> QED BY <1>2, <1>3

(* What lies clear of i before the move lies clear of it afterwards.        *)
LEMMA MovedClear ==
  ASSUME NEW par, Tree(par), NEW q, Tree(q), NEW i, NEW w, Moves(par, q, i, w),
         NEW x \in Dirs, Clear(par, i, x)
  PROVE  Clear(q, i, x)
<1>1. SUFFICES ASSUME NEW d \in Dirs, ino[d] = i, BeneathIn(q, x, d) PROVE FALSE
  BY DEF Clear
<1> DEFINE Bad == {y \in Dirs : Clear(par, i, y) /\ BeneathIn(q, y, d)}
<1>2. PICK m \in Bad : m = Root \/ q[ino[m]] \notin Bad
  <2>1. Bad \in SUBSET Dirs /\ Bad # {}
    BY <1>1
  <2> HIDE DEF Bad
  <2> QED BY <2>1, Topmost
<1>3. m # d
  BY <1>1, BeneathSelf DEF Clear
<1>4. m # Root /\ BeneathIn(q, q[ino[m]], d)
  BY <1>3, BeneathParent
<1>5. q[ino[m]] \in Dirs /\ Clear(par, i, q[ino[m]])
  BY <1>4, ClearParent, SMTT(30)
<1> QED BY <1>2, <1>4, <1>5

(* The old parent is not beneath what moves.                                *)
LEMMA OldIsClear ==
  ASSUME NEW par, Tree(par), NEW i \in Inodes \ {ino[Root]}
  PROVE  Clear(par, i, par[i])
<1> SUFFICES ASSUME NEW d \in Dirs, ino[d] = i, BeneathIn(par, par[i], d) PROVE FALSE
  BY DEF Clear
<1>1. d # Root /\ par[i] \in Dirs
  BY DEF Tree
<1>2. BeneathIn(par, d, par[i])
  BY <1>1, BeneathUnfold, BeneathSelf
<1>3. d = par[i]
  BY <1>1, <1>2, BeneathAntisymmetric
<1>4. {d} \in SUBSET (Dirs \ {Root}) /\ {d} # {}
  BY <1>1
<1>5. \E x \in {d} : par[ino[x]] \notin {d}
  BY <1>4 DEF Tree
<1> QED BY <1>3, <1>5

(* What a rename does to the subtree roots: what moves without being a      *)
(* root changes from the subtree of the old parent to that of w.            *)
LEMMA MovedClimb ==
  ASSUME NEW par, Tree(par), NEW q, Tree(q), NEW i, NEW w, Moves(par, q, i, w), Clear(par, i, w),
         NEW Q, Root \in Q, NEW f, Climbs(par, Q, f), NEW g, Climbs(q, Q, g)
  PROVE  /\ \A x \in Dirs : Clear(par, i, x) => g[x] = f[x]
         /\ \A x \in Dirs : g[x] = f[x] \/ (f[x] = f[par[i]] /\ g[x] = f[w])
<1>1. ASSUME NEW x \in Dirs, Clear(par, i, x) PROVE g[x] = f[x]
  <2> DEFINE Bad == {y \in Dirs : Clear(par, i, y) /\ g[y] # f[y]}
  <2>1. SUFFICES ASSUME Bad # {} PROVE FALSE
    BY <1>1
  <2>2. PICK m \in Bad : m = Root \/ par[ino[m]] \notin Bad
    <3>1. Bad \in SUBSET Dirs
      OBVIOUS
    <3> HIDE DEF Bad
    <3> QED BY <2>1, <3>1, Topmost
  <2>3. m \notin Q
    BY <2>2 DEF Climbs
  <2>4. m # Root /\ f[m] = f[par[ino[m]]] /\ g[m] = g[q[ino[m]]]
    BY <2>3 DEF Climbs
  <2>5. q[ino[m]] = par[ino[m]] /\ par[ino[m]] \in Dirs /\ Clear(par, i, par[ino[m]])
    BY <2>4, ClearParent, SMTT(30)
  <2> QED BY <2>2, <2>4, <2>5
<1>2. i \in Inodes \ {ino[Root]} /\ w \in Dirs /\ q[i] = w
  BY DEF Moves
<1>3. g[w] = f[w]
  BY <1>1, <1>2
<1>4. ASSUME NEW x \in Dirs PROVE g[x] = f[x] \/ (f[x] = f[par[i]] /\ g[x] = f[w])
  <2> DEFINE Bad == {y \in Dirs : ~(g[y] = f[y] \/ (f[y] = f[par[i]] /\ g[y] = f[w]))}
  <2>1. SUFFICES ASSUME Bad # {} PROVE FALSE
    BY <1>4
  <2>2. PICK m \in Bad : m = Root \/ par[ino[m]] \notin Bad
    <3>1. Bad \in SUBSET Dirs
      OBVIOUS
    <3> HIDE DEF Bad
    <3> QED BY <2>1, <3>1, Topmost
  <2>3. m \notin Q
    BY <2>2 DEF Climbs
  <2>4. m # Root /\ f[m] = f[par[ino[m]]] /\ g[m] = g[q[ino[m]]]
    BY <2>3 DEF Climbs
  <2>5. par[ino[m]] \in Dirs /\ ino[m] \in Inodes \ {ino[Root]}
    BY <2>4, ParentIsDir
  <2>6. CASE ino[m] = i
    BY <1>2, <1>3, <2>2, <2>4, <2>6
  <2>7. CASE ino[m] # i
    BY <2>2, <2>4, <2>5, <2>7 DEF Moves
  <2> QED BY <2>6, <2>7
<1> QED BY <1>1, <1>4

(* A cached dirfrag has only cached ones above it.                          *)
LEMMA CachedAbove ==
  ASSUME TypeOK, NEW x \in cached, NEW a \in Dirs, Under(x, a)
  PROVE  a \in cached
<1> DEFINE Bad == {y \in cached : Under(y, a)}
<1>1. SUFFICES ASSUME a \notin cached PROVE FALSE
  OBVIOUS
<1>2. Bad \in SUBSET Dirs /\ Bad # {} /\ Tree(parent)
  BY DEF TypeOK
<1>3. PICK m \in Bad : m = Root \/ parent[ino[m]] \notin Bad
  <2> HIDE DEF Bad
  <2> QED BY <1>2, Topmost
<1>4. m \in Dirs /\ m # a
  BY <1>1, <1>2
<1>5. m # Root /\ BeneathIn(parent, parent[ino[m]], a)
  BY <1>2, <1>4, BeneathParent DEF Under
<1> QED BY <1>3, <1>5 DEF TypeOK, Under

(* The dirfrags of i that are no roots, and get their authority from above. *)
Inheriting(C, i, Q) == {d \in C : ino[d] = i /\ d \notin Q}

(* The dirfrags that the loop over the nested ones still has to handle are  *)
(* what moved from the subtree of the old parent to that of w.              *)
LEMMA MovedWaits ==
  ASSUME NEW par, Tree(par), NEW q, Tree(q), NEW i, NEW w, Moves(par, q, i, w), Clear(par, i, w),
         NEW Q, Root \in Q, NEW f, Climbs(par, Q, f), NEW g, Climbs(q, Q, g),
         NEW C \in SUBSET Dirs, \A d \in C \ {Root} : par[ino[d]] \in C,
         NEW N, N = Inheriting(C, i, Q)
  PROVE  /\ \A x \in Dirs : (\E d \in N : BeneathIn(q, x, d) /\ g[x] = g[d]) => f[x] = f[par[i]]
         /\ \A x \in C : g[x] # f[x] => \E d \in N : BeneathIn(q, x, d) /\ g[x] = g[d]
<1>1. /\ \A x \in Dirs : Clear(par, i, x) => g[x] = f[x]
      /\ \A x \in Dirs : g[x] = f[x] \/ (f[x] = f[par[i]] /\ g[x] = f[w])
  BY MovedClimb, SMTT(30)
<1>2. i \in Inodes \ {ino[Root]} /\ w \in Dirs /\ q[i] = w
  BY DEF Moves
<1> USE DEF Inheriting
<1>3. ASSUME NEW x \in Dirs, NEW d \in N, BeneathIn(q, x, d), g[x] = g[d] PROVE f[x] = f[par[i]]
  <2> DEFINE Bad == {y \in Dirs : BeneathIn(q, y, d) /\ g[y] = g[d] /\ f[y] # f[par[i]]}
  <2>0. d \in Dirs /\ ino[d] = i /\ d \notin Q
    OBVIOUS
  <2>1. SUFFICES ASSUME Bad # {} PROVE FALSE
    BY <1>3
  <2>2. PICK m \in Bad : m = Root \/ q[ino[m]] \notin Bad
    <3>1. Bad \in SUBSET Dirs
      OBVIOUS
    <3> HIDE DEF Bad
    <3> QED BY <2>1, <3>1, Topmost
  <2>3. f[d] = f[par[i]]
    BY <2>0 DEF Climbs
  <2>4. m # d /\ m \in Dirs
    BY <2>2, <2>3
  <2>5. m # Root /\ BeneathIn(q, q[ino[m]], d) /\ q[ino[m]] \in Dirs
    BY <2>0, <2>2, <2>4, BeneathParent, ParentIsDir, SMTT(30)
  <2>6. m \notin Q
    <3>1. SUFFICES ASSUME m \in Q PROVE FALSE
      OBVIOUS
    <3>2. g[d] = m
      BY <2>2, <3>1 DEF Climbs
    <3>3. BeneathIn(q, d, m)
      BY <2>0, <3>2, BeneathRoot
    <3> QED BY <2>0, <2>2, <2>4, <3>3, BeneathAntisymmetric
  <2>7. g[m] = g[q[ino[m]]] /\ f[m] = f[par[ino[m]]]
    BY <2>4, <2>6 DEF Climbs
  <2>8. f[q[ino[m]]] = f[par[i]]
    BY <2>2, <2>5, <2>7
  <2>9. ino[m] # i
    BY <2>2, <2>7
  <2>10. q[ino[m]] = par[ino[m]]
    BY <2>5, <2>4, <2>9, ParentIsDir DEF Moves
  <2> QED BY <2>2, <2>7, <2>8, <2>10
<1>4. ASSUME NEW x \in C, g[x] # f[x] PROVE \E d \in N : BeneathIn(q, x, d) /\ g[x] = g[d]
  <2> DEFINE Has(y) == \E d \in N : BeneathIn(q, y, d) /\ g[y] = g[d]
             Bad == {y \in C : g[y] # f[y] /\ ~Has(y)}
  <2>1. SUFFICES ASSUME Bad # {} PROVE FALSE
    BY <1>4
  <2>2. PICK m \in Bad : m = Root \/ q[ino[m]] \notin Bad
    <3>1. Bad \in SUBSET Dirs
      OBVIOUS
    <3> HIDE DEF Bad
    <3> QED BY <2>1, <3>1, Topmost
  <2>3. m \in Dirs /\ m \notin Q
    BY <2>2 DEF Climbs
  <2>4. m # Root /\ g[m] = g[q[ino[m]]] /\ f[m] = f[par[ino[m]]]
    BY <2>3 DEF Climbs
  <2>5. ino[m] # i
    <3>1. SUFFICES ASSUME ino[m] = i PROVE FALSE
      OBVIOUS
    <3>2. m \in N /\ BeneathIn(q, m, m)
      BY <2>3, <3>1, BeneathSelf
    <3> QED BY <2>2, <3>2
  <2>6. q[ino[m]] = par[ino[m]] /\ q[ino[m]] \in C
    BY <2>3, <2>4, <2>5, ParentIsDir DEF Moves
  <2>7. Has(q[ino[m]])
    BY <2>2, <2>4, <2>6
  <2>8. PICK d \in N : BeneathIn(q, q[ino[m]], d) /\ g[q[ino[m]]] = g[d]
    BY <2>7
  <2>9. BeneathIn(q, m, d)
    BY <2>3, <2>4, <2>8, BeneathUnfold
  <2> QED BY <2>2, <2>4, <2>8, <2>9
<1> QED BY <1>3, <1>4

(* The rename moves the inode and adjust_subtree_after_rename starts: the   *)
(* roots that moved are listed under the old subtree, and the nested        *)
(* dirfrags wait.                                                           *)
LEMMA RenameKeeps ==
  ASSUME IInv, NEW i \in Movable, NEW w \in Dirs, Rename(i, w)
  PROVE  IInv'
<1>1. TypeOK /\ Fits(parent, R, Top, subtrees)
  BY DEF IInv, Rename, idle
<1>2. /\ i \in Inodes \ {ino[Root]} /\ Tree(parent) /\ parent \in [Inodes \ {ino[Root]} -> Dirs]
      /\ cached \in SUBSET Dirs /\ Root \in R /\ R \in SUBSET Dirs /\ R \subseteq cached
      /\ Climbs(parent, R, Top) /\ \A d \in cached \ {Root} : parent[ino[d]] \in cached
      /\ Root \in cached /\ w \in cached
  BY <1>1, TreeAssumption, Facts DEF TypeOK, Tree, Rename
<1>3. PICK q \in [Inodes \ {ino[Root]} -> Dirs] : q = [parent EXCEPT ![i] = w]
  BY <1>2
<1>4. PICK u \in Dirs : u = parent[i]
  BY <1>2
<1>5. PICK A, N : A = DirfragsOf(i) \cap R /\ N = DirfragsOf(i) \ R
  OBVIOUS
<1>6. DOMAIN subtrees = R
  BY <1>1, FitsFacts
<1>7. /\ parent' = q /\ cached' = cached /\ dir_auth' = dir_auth /\ subtrees' = subtrees
      /\ op' = [name |-> "rename", olddir |-> u, newdir |-> w, roots |-> A, nested |-> N]
      /\ before' = Authorities
  BY <1>3, <1>4, <1>5, <1>6 DEF Rename, Start, idle
<1>8. Moves(parent, q, i, w)
  BY <1>2, <1>3 DEF Moves
<1>9. Clear(parent, i, w)
  <2>1. \A d \in DirfragsOf(i) : ~Under(w, d)
    BY BeneathIsBeneathIn DEF Rename, Under
  <2> SUFFICES ASSUME NEW d \in Dirs, ino[d] = i, BeneathIn(parent, w, d) PROVE FALSE
    BY DEF Clear
  <2>2. d \in cached
    BY <1>1, <1>2, CachedAbove DEF Under
  <2> QED BY <2>1, <2>2 DEF DirfragsOf, Under
<1>10. Tree(q)
  BY <1>2, <1>8, <1>9, MovedTree
<1>11. /\ A \subseteq R /\ N \subseteq cached /\ A \in SUBSET Dirs /\ N \in SUBSET Dirs
       /\ N = {d \in cached : ino[d] = i /\ d \notin R}
       /\ A = {d \in cached : ino[d] = i /\ d \in R}
       /\ \A d \in A \cup N : ino[d] = i /\ d # Root /\ q[ino[d]] = w /\ d \in Dirs
  BY <1>2, <1>5, <1>8 DEF DirfragsOf, Moves
<1>12. R' = R /\ op' \in Ops
  BY <1>7, <1>11 DEF R, Ops
<1>13. u \in cached
  <2>1. PICK d \in cached : ino[d] = i
    BY DEF Rename, DirfragsOf
  <2> QED BY <1>2, <1>4, <2>1
<1>14. TypeOK'
  <2>1. \A d \in cached \ {Root} : q[ino[d]] \in cached
    BY <1>2, <1>8, ParentIsDir DEF Moves
  <2> QED BY <1>1, <1>7, <1>10, <1>12, <2>1 DEF TypeOK
<1>15. PICK g : g = Top'
  OBVIOUS
<1>16. Climbs(q, R, g)
  <2>1. Climbs(q, Roots(dir_auth), [x \in Dirs |-> RootIn(q, dir_auth, x)])
    BY <1>2, <1>10, RootInClimbs DEF R
  <2> QED BY <1>7, <1>15, <2>1 DEF R, Top
<1>17. PICK f : f = Top
  OBVIOUS
<1>18. /\ \A x \in Dirs : Clear(parent, i, x) => g[x] = f[x]
       /\ \A x \in Dirs : g[x] = f[x] \/ (f[x] = f[u] /\ g[x] = f[w])
  BY <1>2, <1>4, <1>8, <1>9, <1>10, <1>16, <1>17, MovedClimb, SMTT(30)
<1>19. /\ \A x \in Dirs : (\E d \in N : BeneathIn(q, x, d) /\ g[x] = g[d]) => f[x] = f[u]
       /\ \A x \in cached : g[x] # f[x] => \E d \in N : BeneathIn(q, x, d) /\ g[x] = g[d]
  <2>1. N = Inheriting(cached, i, R)
    BY <1>11 DEF Inheriting
  <2> QED BY <1>2, <1>4, <1>8, <1>9, <1>10, <1>16, <1>17, <2>1, MovedWaits, SMTT(30)
<1>20. Clear(parent, i, u)
  BY <1>2, <1>4, OldIsClear
<1>21. g[u] = f[u] /\ g[w] = f[w]
  BY <1>9, <1>18, <1>20
<1>22. \A d \in A \cup N : ~BeneathIn(q, u, d) /\ ~BeneathIn(q, w, d)
  <2>1. Clear(q, i, u) /\ Clear(q, i, w)
    BY <1>2, <1>8, <1>9, <1>10, <1>20, MovedClear
  <2> QED BY <1>11, <2>1 DEF Clear
<1> DEFINE X == {b \in R \ {Root} : f[parent[ino[b]]] # g[q[ino[b]]]}
<1>23. ASSUME NEW b \in R \ {Root}
       PROVE  /\ f[parent[ino[b]]] = g[q[ino[b]]] \/ (f[parent[ino[b]]] = f[u] /\ g[q[ino[b]]] = g[w])
              /\ ino[b] = i => f[parent[ino[b]]] = f[u] /\ g[q[ino[b]]] = g[w]
              /\ ino[b] # i => q[ino[b]] = parent[ino[b]]
              /\ parent[ino[b]] \in cached
  <2>1. ino[b] \in Inodes \ {ino[Root]} /\ parent[ino[b]] \in Dirs /\ parent[ino[b]] \in cached
    BY <1>2, ParentIsDir
  <2>2. CASE ino[b] = i
    BY <1>4, <1>8, <2>1, <2>2 DEF Moves
  <2>3. CASE ino[b] # i
    BY <1>8, <1>18, <1>21, <2>1, <2>3 DEF Moves
  <2> QED BY <2>2, <2>3
<1>24. X \in SUBSET (R \ {Root}) /\ \A b \in X : g[q[ino[b]]] = g[w]
  BY <1>23
<1>25. FitsBut(q, R, g, subtrees, X, g[u])
  <2>1. \A b \in R \ {Root} : (IF b \in X THEN g[u] ELSE g[q[ino[b]]]) = f[parent[ino[b]]]
    BY <1>21, <1>23
  <2>2. \A r \in R : subtrees[r] = {b \in R \ {Root} : f[parent[ino[b]]] = r}
    BY <1>1, <1>17, FitsFacts
  <2> HIDE DEF X
  <2> QED BY <1>6, <2>1, <2>2 DEF FitsBut
<1>26. N # {} \/ X \subseteq A
  <2> SUFFICES ASSUME N = {}, NEW b \in X PROVE b \in A
    OBVIOUS
  <2>1. ino[b] = i
    BY <1>19, <1>23, SMTT(30)
  <2> QED BY <1>2, <1>11, <2>1
<1>27. g[u] # g[w] => A \subseteq X
  BY <1>11, <1>21, <1>23
<1>28. Authorities = [x \in cached |-> dir_auth[f[x]]]
  BY <1>1, <1>17, AuthorityIs
<1>29. ASSUME NEW x \in cached
       PROVE  IF \E d \in N : BeneathIn(q, x, d) /\ g[x] = g[d]
              THEN before'[x] = dir_auth[g[u]] ELSE before'[x] = dir_auth[g[x]]
  BY <1>2, <1>7, <1>19, <1>21, <1>28
<1> HIDE DEF X
<1>30. RenameInv'
  <2>1. /\ op'.olddir = u /\ op'.newdir = w /\ op'.roots = A /\ op'.nested = N
    BY <1>7
  <2>2. (op.olddir \in cached /\ op.newdir \in cached /\ op.roots \subseteq R \ {Root}
         /\ op.nested \subseteq cached \ R)'
    BY <1>2, <1>7, <1>11, <1>12, <1>13, <2>1
  <2>3. (\A d \in op.roots \cup op.nested :
          d # Root /\ parent[ino[d]] = op.newdir /\ ~Under(op.olddir, d) /\ ~Under(op.newdir, d))'
    BY <1>7, <1>11, <1>22, <2>1 DEF Under
  <2>4. (\E Y \in SUBSET (R \ {Root}) :
           /\ FitsBut(parent, R, Top, subtrees, Y, Top[op.olddir])
           /\ \A b \in Y : Top[parent[ino[b]]] = Top[op.newdir]
           /\ op.nested # {} \/ Y \subseteq op.roots
           /\ Top[op.olddir] # Top[op.newdir] => op.roots \subseteq Y)'
    <3>1. FitsBut(parent', R', Top', subtrees', X, Top'[op'.olddir])
      BY <1>7, <1>12, <1>15, <1>25, <2>1
    <3> QED BY <1>7, <1>12, <1>15, <1>24, <1>26, <1>27, <2>1, <3>1
  <2>5. (before = [x \in cached |-> before[x]])'
    BY <1>7, <1>28
  <2>6. (\A x \in cached : IF Waits(x) THEN before[x] = dir_auth[Top[op.olddir]] ELSE Kept(x))'
    BY <1>7, <1>15, <1>29, <2>1 DEF Waits, Kept, Under
  <2> QED BY <2>2, <2>3, <2>4, <2>5, <2>6 DEF RenameInv
<1>31. op'.name = "rename"
  BY <1>7
<1> QED BY <1>14, <1>30, <1>31 DEF IInv

(* The dirfrags of a renamed inode lie beside one another.                  *)
LEMMA RenameFacts ==
  ASSUME TypeOK, op.name = "rename", RenameInv
  PROVE  /\ op.olddir \in Dirs /\ op.newdir \in Dirs /\ op.roots \in SUBSET Dirs
         /\ op.nested \in SUBSET Dirs /\ op.roots \cap op.nested = {}
         /\ op = [name |-> "rename", olddir |-> op.olddir, newdir |-> op.newdir,
                  roots |-> op.roots, nested |-> op.nested]
         /\ \A d \in op.roots \cup op.nested : Top[op.olddir] # d /\ Top[op.newdir] # d
         /\ \A d, e \in op.roots \cup op.nested : Under(d, e) => d = e
         /\ \A e \in op.nested : Top[e] = Top[op.newdir]
         /\ \A d, e \in op.roots \cup op.nested, x \in Dirs : Under(x, d) /\ Under(x, e) => d = e
<1>1. op \in [name : {"rename"}, olddir : Dirs, newdir : Dirs,
              roots : SUBSET Dirs, nested : SUBSET Dirs]
  BY OpCases DEF TypeOK
<1>2. /\ op.olddir \in Dirs /\ op.newdir \in Dirs /\ op.roots \in SUBSET Dirs
      /\ op.nested \in SUBSET Dirs
      /\ op = [name |-> "rename", olddir |-> op.olddir, newdir |-> op.newdir,
               roots |-> op.roots, nested |-> op.nested]
  BY <1>1
<1>3. \A d \in op.roots \cup op.nested :
        d # Root /\ parent[ino[d]] = op.newdir /\ ~Under(op.olddir, d) /\ ~Under(op.newdir, d)
  BY DEF RenameInv
<1>4. op.roots \cap op.nested = {}
  BY DEF RenameInv
<1>5. \A d \in op.roots \cup op.nested : Top[op.olddir] # d /\ Top[op.newdir] # d
  BY <1>2, <1>3, UnderFacts, SMTT(30)
<1>6. \A d, e \in op.roots \cup op.nested : Under(d, e) => d = e
  BY <1>2, <1>3, ParentFacts
<1>7. \A e \in op.nested : Top[e] = Top[op.newdir]
  BY <1>2, <1>3, ParentFacts DEF RenameInv
<1>8. \A d, e \in op.roots \cup op.nested, x \in Dirs : Under(x, d) /\ Under(x, e) => d = e
  BY <1>2, <1>6, UnderFacts
<1> QED BY <1>2, <1>4, <1>5, <1>6, <1>7, <1>8

(* The invariant of the rename after a step, from the set Y of bounds that  *)
(* still have to move.                                                      *)
LEMMA RenameStep ==
  ASSUME TypeOK', RenameInv, op.name = "rename",
         NEW A \in SUBSET op.roots, NEW N \in SUBSET op.nested,
         op' = [name |-> "rename", olddir |-> op.olddir, newdir |-> op.newdir,
                roots |-> A, nested |-> N],
         cached' = cached, parent' = parent, before' = before,
         A \subseteq R', N \cap R' = {},
         NEW o, o = Top'[op.olddir],
         NEW Y \in SUBSET (R' \ {Root}), FitsBut(parent, R, Top, subtrees, Y, o)',
         \A b \in Y : Top'[parent[ino[b]]] = Top'[op.newdir],
         N # {} \/ Y \subseteq A, o # Top'[op.newdir] => A \subseteq Y,
         \A x \in cached : IF \E d \in N : Under(x, d) /\ Top'[x] = Top'[d]
                           THEN before[x] = dir_auth'[o] ELSE before[x] = dir_auth'[Top'[x]]
  PROVE  IInv'
<1>1. op'.olddir = op.olddir /\ op'.newdir = op.newdir /\ op'.roots = A /\ op'.nested = N
      /\ op'.name = "rename"
  OBVIOUS
<1>2. (op.olddir \in cached /\ op.newdir \in cached /\ op.roots \subseteq R \ {Root}
       /\ op.nested \subseteq cached \ R)'
  BY <1>1 DEF RenameInv
<1>3. (\A d \in op.roots \cup op.nested :
        d # Root /\ parent[ino[d]] = op.newdir /\ ~Under(op.olddir, d) /\ ~Under(op.newdir, d))'
  BY <1>1 DEF RenameInv, Under
<1>4. (\E X \in SUBSET (R \ {Root}) :
         /\ FitsBut(parent, R, Top, subtrees, X, Top[op.olddir])
         /\ \A b \in X : Top[parent[ino[b]]] = Top[op.newdir]
         /\ op.nested # {} \/ X \subseteq op.roots
         /\ Top[op.olddir] # Top[op.newdir] => op.roots \subseteq X)'
  <2>1. FitsBut(parent', R', Top', subtrees', Y, Top'[op'.olddir])
    BY <1>1
  <2> QED BY <1>1, <2>1
<1>5. (\A x \in cached : IF Waits(x) THEN before[x] = dir_auth[Top[op.olddir]] ELSE Kept(x))'
  BY <1>1 DEF Waits, Kept, Under
<1>6. (before = [x \in cached |-> before[x]])'
  BY DEF RenameInv
<1>7. RenameInv'
  BY <1>2, <1>3, <1>4, <1>5, <1>6 DEF RenameInv
<1> QED BY <1>1, <1>7 DEF IInv

(* A dirfrag that moved within one subtree needs nothing.                   *)
LEMMA RenameStays ==
  ASSUME TypeOK, RenameInv, op.name = "rename", Top[op.olddir] = Top[op.newdir],
         NEW A \in SUBSET op.roots, NEW N \in SUBSET op.nested,
         op' = [name |-> "rename", olddir |-> op.olddir, newdir |-> op.newdir,
                roots |-> A, nested |-> N],
         cached' = cached, parent' = parent, before' = before, op' \in Ops,
         dir_auth' = dir_auth, subtrees' = subtrees
  PROVE  IInv'
<1>1. R' = R /\ Top' = Top
  BY DEF R, Top
<1>2. TypeOK'
  BY <1>1 DEF TypeOK
<1>3. PICK X \in SUBSET (R \ {Root}) :
        /\ FitsBut(parent, R, Top, subtrees, X, Top[op.olddir])
        /\ \A b \in X : Top[parent[ino[b]]] = Top[op.newdir]
  BY DEF RenameInv
<1>4. PICK o : o = Top[op.olddir]
  OBVIOUS
<1>5. FitsBut(parent, R, Top, subtrees, {}, o)
  BY <1>3, <1>4 DEF FitsBut
<1>6. FitsBut(parent, R, Top, subtrees, {}, o)'
  BY <1>1, <1>5
<1>7. ASSUME NEW x \in cached
      PROVE  IF \E d \in N : Under(x, d) /\ Top[x] = Top[d]
             THEN before[x] = dir_auth[o] ELSE before[x] = dir_auth[Top[x]]
  <2>1. \A e \in op.nested : Top[e] = o
    BY <1>4, RenameFacts
  <2>2. before[x] = dir_auth[Top[x]]
    BY <1>4, <2>1 DEF RenameInv, Waits, Kept
  <2> QED BY <2>1, <2>2
<1>8. A \subseteq R' /\ N \cap R' = {} /\ o = Top'[op.olddir] /\ o = Top'[op.newdir]
  BY <1>1, <1>4 DEF RenameInv
<1>9. \A x \in cached : IF \E d \in N : Under(x, d) /\ Top'[x] = Top'[d]
                        THEN before[x] = dir_auth'[o] ELSE before[x] = dir_auth'[Top'[x]]
  BY <1>1, <1>7
<1>10. PICK Y \in SUBSET (R' \ {Root}) : Y = {}
  OBVIOUS
<1> QED BY <1>2, <1>6, <1>8, <1>9, <1>10, RenameStep, SMTT(30)

(* One iteration of the loop over the moved roots keeps the invariant.      *)
LEMMA RenameRootKeeps ==
  ASSUME IInv, RenameRoot
  PROVE  IInv'
<1>1. TypeOK /\ op.name = "rename" /\ RenameInv
  BY DEF IInv, RenameRoot
<1>2. /\ op.olddir \in Dirs /\ op.newdir \in Dirs /\ op.roots \in SUBSET Dirs
      /\ op.nested \in SUBSET Dirs /\ op.roots \cap op.nested = {}
      /\ op = [name |-> "rename", olddir |-> op.olddir, newdir |-> op.newdir,
               roots |-> op.roots, nested |-> op.nested]
      /\ \A d \in op.roots \cup op.nested : Top[op.olddir] # d /\ Top[op.newdir] # d
      /\ \A e \in op.nested : Top[e] = Top[op.newdir]
      /\ \A d, e \in op.roots \cup op.nested, x \in Dirs : Under(x, d) /\ Under(x, e) => d = e
  BY <1>1, RenameFacts
<1>3. PICK d \in op.roots : Become(MovedRoot(d)) /\ op' = [op EXCEPT !.roots = @ \ {d}]
  BY DEF RenameRoot
<1>4. cached' = cached /\ parent' = parent /\ exportbound' = exportbound /\ before' = before
  BY DEF RenameRoot
<1>5. PICK A \in SUBSET op.roots : A = op.roots \ {d}
  OBVIOUS
<1>6. PICK N \in SUBSET op.nested : N = op.nested
  OBVIOUS
<1>7. op' = [name |-> "rename", olddir |-> op.olddir, newdir |-> op.newdir, roots |-> A, nested |-> N]
  BY <1>2, <1>3, <1>5, <1>6, SMTT(30)
<1>8. op' \in Ops
  BY <1>2, <1>7 DEF Ops
<1>9. PICK o, w : o = Top[op.olddir] /\ w = Top[op.newdir]
  OBVIOUS
<1>10. oldparent = o /\ newparent = w
  BY <1>1, <1>2, <1>9, AuthorityIs DEF oldparent, newparent
<1>11. CASE o = w
  <2>1. dir_auth' = dir_auth /\ subtrees' = subtrees
    BY <1>3, <1>10, <1>11, SMTT(30) DEF MovedRoot, Become, Now
  <2> QED BY <1>1, <1>4, <1>7, <1>8, <1>9, <1>11, <2>1, RenameStays
<1>12. CASE o # w
  <2>1. PICK X \in SUBSET (R \ {Root}) :
          /\ FitsBut(parent, R, Top, subtrees, X, o)
          /\ \A b \in X : Top[parent[ino[b]]] = w
          /\ op.nested # {} \/ X \subseteq op.roots
          /\ op.roots \subseteq X
    BY <1>1, <1>9, <1>12 DEF RenameInv
  <2>2. PICK st : st = [Now EXCEPT !.sub[o] = @ \ {d}, !.sub[w] = @ \cup {d}]
    OBVIOUS
  <2>3. PICK n : n = try_subtree_merge_at(st, d)
    OBVIOUS
  <2>4. dir_auth' = n.auth /\ subtrees' = n.sub
    BY <1>3, <1>10, <1>12, <2>2, <2>3 DEF MovedRoot, Become
  <2>5. PICK Y \in SUBSET (R \ {Root}) : Y = X \ {d}
    OBVIOUS
  <2>6. d \in R /\ d \in X /\ d \notin Y /\ o # d /\ w # d /\ o \in R /\ w \in R
    BY <1>1, <1>2, <1>9, <2>1, <2>5, Facts
  <2>7. DOMAIN subtrees = R
    BY <2>1 DEF FitsBut
  <2>8. st = [auth |-> dir_auth,
              sub |-> [r \in R |-> IF r = o THEN subtrees[r] \ {d}
                                   ELSE IF r = w THEN subtrees[r] \cup {d} ELSE subtrees[r]]]
    BY <1>12, <2>2, <2>6, <2>7 DEF Now
  <2>9. Good(st, Y, o)
    <3>1. Shape(st)
      BY <1>1, <2>8 DEF Shape, TypeOK, R
    <3>2. FitsBut(parent, R, Top, st.sub, Y, o)
      <4>1. \A r \in R : subtrees[r] = {b \in R \ {Root} : r = IF b \in X THEN o ELSE Top[parent[ino[b]]]}
        BY <2>1 DEF FitsBut
      <4>2. \A b \in R \ {Root} : b # d => (b \in X <=> b \in Y)
        BY <2>5
      <4>3. Top[parent[ino[d]]] = w
        BY <2>1, <2>6
      <4>4. DOMAIN st.sub = R
        BY <2>8
      <4>5. ASSUME NEW r \in R
            PROVE  st.sub[r] = {b \in R \ {Root} : r = IF b \in Y THEN o ELSE Top[parent[ino[b]]]}
        <5>1. st.sub[r] = IF r = o THEN subtrees[r] \ {d}
                          ELSE IF r = w THEN subtrees[r] \cup {d} ELSE subtrees[r]
          BY <2>8
        <5> QED BY <1>12, <2>1, <2>6, <4>1, <4>2, <4>3, <5>1, SMTT(30)
      <4> QED BY <4>4, <4>5 DEF FitsBut
    <3>3. Top = Tops(st.auth) /\ R = Roots(st.auth)
      BY <1>1, <2>8, Facts
    <3> QED BY <3>1, <3>2, <3>3 DEF Good
  <2>10. /\ TypeOK' /\ FitsBut(parent, R, Top, subtrees, Y, o)'
         /\ R \ {d} \subseteq R' /\ R' \subseteq R
         /\ \A x \in Dirs : dir_auth'[Top'[x]] = dir_auth[Top[x]]
         /\ \A x \in Dirs : Top[x] # d => Top'[x] = Top[x]
    <3>1. st.auth = dir_auth
      BY <2>8
    <3> QED BY <1>1, <1>4, <1>8, <2>3, <2>4, <2>6, <2>9, <3>1, MergeStep, SMTT(30)
  <2>11. Top'[op.olddir] = o /\ Top'[op.newdir] = w /\ \A e \in N : Top'[e] = w /\ Top[e] = w
    BY <1>2, <1>6, <1>9, <2>6, <2>10
  <2>12. Y \in SUBSET (R' \ {Root}) /\ A \subseteq R' /\ N \cap R' = {}
    BY <1>1, <1>5, <1>6, <2>1, <2>5, <2>10 DEF RenameInv
  <2>13. \A b \in Y : Top'[parent[ino[b]]] = w
    <3> SUFFICES ASSUME NEW b \in Y PROVE Top'[parent[ino[b]]] = w
      OBVIOUS
    <3>1. Top[parent[ino[b]]] = w /\ parent[ino[b]] \in Dirs
      BY <1>1, <2>1, <2>5, Facts, ParentFacts
    <3> QED BY <2>6, <2>10, <3>1
  <2>14. (N # {} \/ Y \subseteq A) /\ A \subseteq Y
    BY <1>5, <1>6, <2>1, <2>5
  <2>15. ASSUME NEW x \in cached
         PROVE  IF \E e \in N : Under(x, e) /\ Top'[x] = Top'[e]
                THEN before[x] = dir_auth'[o] ELSE before[x] = dir_auth'[Top'[x]]
    <3>1. x \in Dirs
      BY <1>1 DEF TypeOK
    <3>2. dir_auth'[o] = dir_auth[o] /\ dir_auth'[Top'[x]] = dir_auth[Top[x]]
      BY <1>2, <1>9, <2>10, <2>11, <3>1
    <3>3. IF \E e \in N : Under(x, e) /\ Top[x] = Top[e]
          THEN before[x] = dir_auth[o] ELSE before[x] = dir_auth[Top[x]]
      BY <1>1, <1>6, <1>9 DEF RenameInv, Waits, Kept
    <3>4. ASSUME NEW e \in N, Under(x, e) PROVE Top[x] # d
      <4>1. SUFFICES ASSUME Top[x] = d PROVE FALSE
        OBVIOUS
      <4>2. Under(x, d)
        BY <1>1, <3>1, <4>1, UnderFacts
      <4>3. e = d
        BY <1>2, <1>6, <3>1, <3>4, <4>2
      <4> QED BY <1>2, <1>6, <4>3
    <3>5. ASSUME NEW e \in N, Under(x, e) PROVE Top'[x] = Top'[e] <=> Top[x] = Top[e]
      BY <2>10, <2>11, <3>1, <3>4, <3>5
    <3> QED BY <3>2, <3>3, <3>5
  <2> QED BY <1>1, <1>4, <1>7, <2>10, <2>11, <2>12, <2>13, <2>14, <2>15, RenameStep, SMTT(30)
<1> QED BY <1>11, <1>12

(* A new root whose authority differs from the one above it is not merged.  *)
LEMMA NoMergeBack ==
  ASSUME TypeOK, NEW st, Good(st, {}, Root), st.auth = dir_auth, NEW d \in Dirs, d \notin R, d # Root,
         NEW a \in Auths, dir_auth[Top[d]] # a
  PROVE  try_subtree_merge_at(adjust_subtree_auth(st, d, a), d) = adjust_subtree_auth(st, d, a)
<1>1. PICK m : m = adjust_subtree_auth(st, d, a)
  OBVIOUS
<1>2. Shape(m) /\ Adjusted(st, m, d, a) /\ Tree(parent)
  BY <1>1, AdjustEffect DEF Good, TypeOK
<1>3. R = Roots(st.auth) /\ Top = Tops(st.auth) /\ Top[d] \in R /\ Top[d] \in Dirs
  BY Facts
<1>4. Cut(parent, Top, Tops(m.auth), d) /\ m.auth = [dir_auth EXCEPT ![d] = a]
      /\ Roots(m.auth) = R \cup {d}
  BY <1>2, <1>3 DEF Adjusted
<1>5. Tops(m.auth)[parent[ino[d]]] = Top[d]
  BY <1>4 DEF Cut
<1>6. Top[d] # d
  BY <1>3
<1>7. m.auth[Top[d]] # m.auth[d]
  BY <1>3, <1>4, <1>6 DEF TypeOK
<1>8. ~Mergeable(m, d)
  BY <1>5, <1>7 DEF Mergeable
<1>9. d \in Roots(m.auth)
  BY <1>4
<1>10. try_subtree_merge_at(m, d) = m
  BY <1>2, <1>8, <1>9, MergeEffect
<1> QED BY <1>1, <1>10

(* One iteration of the loop over the nested dirfrags keeps the invariant:  *)
(* a nested dirfrag is delegated to the authority it had, and merged where  *)
(* the new subtree has the same.                                            *)
LEMMA RenameNestedKeeps ==
  ASSUME IInv, RenameNested
  PROVE  IInv'
<1>1. TypeOK /\ op.name = "rename" /\ RenameInv /\ op.roots = {}
  BY DEF IInv, RenameNested
<1>2. /\ op.olddir \in Dirs /\ op.newdir \in Dirs /\ op.roots \in SUBSET Dirs
      /\ op.nested \in SUBSET Dirs
      /\ op = [name |-> "rename", olddir |-> op.olddir, newdir |-> op.newdir,
               roots |-> op.roots, nested |-> op.nested]
      /\ \A d \in op.roots \cup op.nested : Top[op.olddir] # d /\ Top[op.newdir] # d
      /\ \A d, e \in op.roots \cup op.nested : Under(d, e) => d = e
      /\ \A e \in op.nested : Top[e] = Top[op.newdir]
      /\ \A d, e \in op.roots \cup op.nested, x \in Dirs : Under(x, d) /\ Under(x, e) => d = e
  BY <1>1, RenameFacts
<1>3. PICK d \in op.nested : Become(MovedNested(d)) /\ op' = [op EXCEPT !.nested = @ \ {d}]
  BY DEF RenameNested
<1>4. cached' = cached /\ parent' = parent /\ exportbound' = exportbound /\ before' = before
  BY DEF RenameNested
<1>5. PICK A \in SUBSET op.roots : A = {}
  OBVIOUS
<1>6. PICK N \in SUBSET op.nested : N = op.nested \ {d}
  OBVIOUS
<1>7. op' = [name |-> "rename", olddir |-> op.olddir, newdir |-> op.newdir, roots |-> A, nested |-> N]
  BY <1>1, <1>2, <1>3, <1>5, <1>6
<1>8. op' \in Ops
  BY <1>2, <1>7 DEF Ops
<1>9. PICK o, w : o = Top[op.olddir] /\ w = Top[op.newdir]
  OBVIOUS
<1>10. /\ oldparent = o /\ newparent = w /\ authority(Now, o) = dir_auth[o]
       /\ authority(Now, w) = dir_auth[w] /\ o \in R /\ w \in R /\ o \in Dirs /\ w \in Dirs
       /\ d \in Dirs /\ d # Root /\ d \in cached /\ d \notin R /\ ~Under(op.olddir, d)
  <2>1. o \in R /\ w \in R /\ o \in Dirs /\ w \in Dirs /\ Top[o] = o /\ Top[w] = w
    BY <1>1, <1>2, <1>9, Facts, UnderFacts
  <2>2. oldparent = o /\ newparent = w /\ authority(Now, o) = dir_auth[o] /\ authority(Now, w) = dir_auth[w]
    BY <1>1, <1>2, <1>9, <2>1, AuthorityIs DEF oldparent, newparent
  <2>3. d \in Dirs /\ d # Root /\ d \in cached /\ d \notin R /\ ~Under(op.olddir, d)
    BY <1>1, <1>2, <1>3 DEF RenameInv
  <2> QED BY <2>1, <2>2, <2>3
<1>11. CASE o = w
  <2>1. dir_auth' = dir_auth /\ subtrees' = subtrees
    BY <1>3, <1>10, <1>11, SMTT(30) DEF MovedNested, Become, Now
  <2> QED BY <1>1, <1>4, <1>7, <1>8, <1>9, <1>11, <2>1, RenameStays
<1>12. CASE o # w
  <2>1. PICK X \in SUBSET (R \ {Root}) :
          FitsBut(parent, R, Top, subtrees, X, o) /\ \A b \in X : Top[parent[ino[b]]] = w
    BY <1>1, <1>9 DEF RenameInv
  <2>2. /\ DOMAIN subtrees = R
        /\ \A r \in R : subtrees[r] = {b \in R \ {Root} : r = IF b \in X THEN o ELSE Top[parent[ino[b]]]}
    BY <2>1 DEF FitsBut
  <2>3. tomove = X
    <3>1. ASSUME NEW b \in subtrees[o] PROVE get_subtree_root(Now, get_parent_dir(b)) = Top[parent[ino[b]]]
      <4>1. b \in Dirs /\ b # Root
        BY <1>1, <1>10, <2>2, Facts, SMTT(30)
      <4>2. parent[ino[b]] \in Dirs
        BY <1>1, <4>1, ParentFacts
      <4> QED BY <1>1, <4>2, AuthorityIs DEF get_parent_dir
    <3>2. tomove = {b \in subtrees[o] : Top[parent[ino[b]]] # o}
      BY <1>10, <3>1 DEF tomove
    <3> QED BY <1>10, <1>12, <2>1, <2>2, <3>2
  <2>4. PICK st : st = [Now EXCEPT !.sub[o] = @ \ X, !.sub[w] = @ \cup X]
    OBVIOUS
  <2>5. st = [auth |-> dir_auth,
              sub |-> [r \in R |-> IF r = o THEN subtrees[r] \ X
                                   ELSE IF r = w THEN subtrees[r] \cup X ELSE subtrees[r]]]
    BY <1>10, <1>12, <2>2, <2>4 DEF Now
  <2>6. Shape(st) /\ st.auth = dir_auth
    BY <1>1, <2>5 DEF Shape, TypeOK, R
  <2>7. FitsBut(parent, R, Top, st.sub, {}, Root)
    <3>1. DOMAIN st.sub = R
      BY <2>5
    <3>2. ASSUME NEW r \in R PROVE st.sub[r] = {b \in R \ {Root} : r = Top[parent[ino[b]]]}
      <4>1. st.sub[r] = IF r = o THEN subtrees[r] \ X
                        ELSE IF r = w THEN subtrees[r] \cup X ELSE subtrees[r]
        BY <2>5
      <4> QED BY <1>10, <1>12, <2>1, <2>2, <4>1, SMTT(30)
    <3> QED BY <3>1, <3>2 DEF FitsBut
  <2>8. Good(st, {}, Root)
    <3>1. Top = Tops(st.auth) /\ R = Roots(st.auth)
      BY <1>1, <2>6, Facts
    <3> QED BY <2>6, <2>7, <3>1 DEF Good
  <2>9. ASSUME NEW x \in cached
        PROVE  IF \E e \in op.nested : Under(x, e) /\ Top[x] = w
               THEN before[x] = dir_auth[o] ELSE before[x] = dir_auth[Top[x]]
    BY <1>1, <1>2, <1>9, SMTT(30) DEF RenameInv, Waits, Kept
  <2>10. CASE dir_auth[o] = dir_auth[w]
    <3>1. Become(st)
      BY <1>3, <1>10, <1>12, <2>3, <2>4, <2>10 DEF MovedNested
    <3>2. dir_auth' = dir_auth /\ subtrees' = st.sub
      BY <2>6, <3>1 DEF Become
    <3>3. R' = R /\ Top' = Top
      BY <1>4, <3>2 DEF R, Top
    <3>4. TypeOK'
      BY <1>1, <1>4, <1>8, <3>2, <3>3 DEF TypeOK
    <3>5. FitsBut(parent, R, Top, subtrees, {}, o)'
      BY <1>4, <2>7, <3>2, <3>3 DEF FitsBut
    <3>6. ASSUME NEW x \in cached
          PROVE  IF \E e \in N : Under(x, e) /\ Top'[x] = Top'[e]
                 THEN before[x] = dir_auth'[o] ELSE before[x] = dir_auth'[Top'[x]]
      BY <1>2, <1>6, <1>9, <2>9, <2>10, <3>2, <3>3
    <3>7. PICK Y \in SUBSET (R' \ {Root}) : Y = {}
      OBVIOUS
    <3>8. A \subseteq R' /\ N \cap R' = {} /\ o = Top'[op.olddir]
      BY <1>1, <1>5, <1>9, <3>3 DEF RenameInv
    <3> QED BY <1>1, <1>4, <1>5, <1>7, <3>4, <3>5, <3>6, <3>7, <3>8, RenameStep, SMTT(30)
  <2>11. CASE dir_auth[o] # dir_auth[w]
    <3>1. PICK a \in Auths : a = dir_auth[o]
      BY <1>1, <1>10 DEF TypeOK, R, Roots
    <3>2. Top[d] = w
      BY <1>2, <1>9
    <3>3. try_subtree_merge_at(adjust_subtree_auth(st, d, a), d) = adjust_subtree_auth(st, d, a)
      BY <1>1, <1>10, <2>6, <2>8, <2>11, <3>1, <3>2, NoMergeBack
    <3>4. PICK n : n = adjust_subtree_auth(st, d, a)
      OBVIOUS
    <3>5. Become(n)
      <4>1. MovedNested(d) = try_subtree_merge_at(adjust_subtree_auth(st, d, a), d)
        BY <1>10, <1>12, <2>3, <2>4, <2>11, <3>1 DEF MovedNested
      <4> QED BY <1>3, <3>3, <3>4, <4>1
    <3>6. dir_auth' = n.auth /\ subtrees' = n.sub
      BY <3>5 DEF Become
    <3>7. TypeOK' /\ Fits(parent, R, Top, subtrees)' /\ Delegated(d, a)
      BY <1>1, <1>4, <1>8, <1>10, <2>6, <2>8, <3>4, <3>6, DelegateFrom
    <3>8. FitsBut(parent, R, Top, subtrees, {}, o)'
      BY <3>7 DEF Fits, FitsBut
    <3>9. /\ R' = R \cup {d}
          /\ \A x \in Dirs : Top'[x] = d => dir_auth'[d] = a /\ Top[x] = w /\ Under(x, d)
          /\ \A x \in Dirs : Top'[x] # d => Top'[x] = Top[x] /\ dir_auth'[Top[x]] = dir_auth[Top[x]]
      BY <3>2, <3>7 DEF Delegated
    <3>10. Top'[op.olddir] = o /\ dir_auth'[o] = dir_auth[o]
      BY <1>2, <1>9, <1>10, <3>9
    <3>11. \A e \in N : Top'[e] = w
      BY <1>2, <1>6, <1>9, <3>9
    <3>12. ASSUME NEW x \in cached
           PROVE  IF \E e \in N : Under(x, e) /\ Top'[x] = Top'[e]
                  THEN before[x] = dir_auth'[o] ELSE before[x] = dir_auth'[Top'[x]]
      <4>1. x \in Dirs
        BY <1>1 DEF TypeOK
      <4>2. CASE Top'[x] = d
        <5>1. Under(x, d) /\ Top[x] = w /\ dir_auth'[Top'[x]] = dir_auth[o]
          BY <3>1, <3>9, <4>1, <4>2
        <5>2. before[x] = dir_auth[o]
          BY <2>9, <5>1
        <5> QED BY <3>10, <5>1, <5>2
      <4>3. CASE Top'[x] # d
        <5>1. Top'[x] = Top[x] /\ dir_auth'[Top'[x]] = dir_auth[Top[x]]
          BY <3>9, <4>1, <4>3
        <5>2. ~(Under(x, d) /\ Top[x] = w)
          <6>1. SUFFICES ASSUME Under(x, d), Top[x] = w PROVE FALSE
            OBVIOUS
          <6>2. Under(w, d)
            BY <1>4, <1>10, <3>7, <3>9, <4>1, <5>1, <6>1, NextFacts
          <6>3. Under(d, w)
            BY <1>1, <1>10, <3>2, UnderFacts
          <6> QED BY <1>1, <1>10, <6>2, <6>3, UnderFacts
        <5>3. (\E e \in op.nested : Under(x, e) /\ Top[x] = w)
                <=> (\E e \in N : Under(x, e) /\ Top'[x] = Top'[e])
          BY <1>6, <3>11, <5>1, <5>2
        <5> QED BY <2>9, <3>10, <5>1, <5>3
      <4> QED BY <4>2, <4>3
    <3>13. PICK Y \in SUBSET (R' \ {Root}) : Y = {}
      OBVIOUS
    <3>14. A \subseteq R' /\ N \cap R' = {}
      BY <1>1, <1>5, <1>6, <3>9 DEF RenameInv
    <3> QED BY <1>1, <1>4, <1>5, <1>7, <3>7, <3>8, <3>10, <3>12, <3>13, <3>14, RenameStep, SMTT(30)
  <2> QED BY <2>10, <2>11
<1> QED BY <1>11, <1>12

(* try_subtree_merge ends with its loop.                                    *)
LEMMA MergeEndsKeeps ==
  ASSUME IInv, MergeEnds
  PROVE  IInv'
<1>1. TypeOK /\ Fits(parent, R, Top, subtrees) /\ End
  BY DEF IInv, MergeEnds
<1> QED BY <1>1, EndKeeps

(* adjust_bounded_subtree_auth ends with verify_subtree_bounds.             *)
LEMMA BoundedEndsKeeps ==
  ASSUME IInv, BoundedEnds
  PROVE  IInv'
<1>1. TypeOK /\ Fits(parent, R, Top, subtrees) /\ End
  BY DEF IInv, BoundedEnds
<1> QED BY <1>1, EndKeeps

(* When both loops of adjust_subtree_after_rename are done, no root is      *)
(* listed under the old subtree any more.                                   *)
LEMMA RenameEndsKeeps ==
  ASSUME IInv, RenameEnds
  PROVE  IInv'
<1>1. TypeOK /\ RenameInv /\ op.roots = {} /\ op.nested = {} /\ End
  BY DEF IInv, RenameEnds
<1>2. FitsBut(parent, R, Top, subtrees, {}, Top[op.olddir])
  BY <1>1 DEF RenameInv
<1>3. Fits(parent, R, Top, subtrees)
  BY <1>2 DEF Fits, FitsBut
<1> QED BY <1>1, <1>3, EndKeeps

(* A step that changes nothing keeps the invariant.                         *)
LEMMA StutterKeeps ==
  ASSUME IInv, UNCHANGED vars
  PROVE  IInv'
<1>1. R' = R /\ Top' = Top
  BY DEF R, Top, vars
<1>2. TypeOK' /\ (op.name # "rename" => Fits(parent, R, Top, subtrees))'
  BY <1>1 DEF IInv, TypeOK, vars
<1>3. (op.name = "merge" => MergeInv)'
  BY <1>1 DEF IInv, MergeInv, vars
<1>4. (op.name \in {"bounds", "swallow", "strays", "verify"} => BoundedInv /\ AskedAuthority)'
  BY <1>1 DEF IInv, BoundedInv, Asked, Inside, Placed, AskedAuthority, Open, Many, Kept, Under, vars
<1>5. (op.name = "rename" => RenameInv)'
  BY <1>1, SMTT(30) DEF IInv, RenameInv, Waits, Kept, Under, vars
<1> QED BY <1>2, <1>3, <1>4, <1>5 DEF IInv

(* Every step of the map keeps the invariant: one case for each action.     *)
LEMMA NextKeeps == IInv /\ [Next]_vars => IInv'
<1> SUFFICES ASSUME IInv, [Next]_vars PROVE IInv'
  OBVIOUS
<1>1. CASE \E d \in Dirs : MarkExportBounds(d)
  BY <1>1, MarkKeeps
<1>2. CASE \E d \in Dirs, a \in Auths : AdjustAuth(d, a)
  BY <1>2, AdjustKeeps
<1>3. CASE \E d \in Dirs : try_subtree_merge(d)
  BY <1>3, StartMergeKeeps
<1>4. CASE MergeAtBound
  BY <1>4, MergeAtBoundKeeps
<1>5. CASE MergeEnds
  BY <1>5, MergeEndsKeeps
<1>6. CASE \E d \in Dirs, a \in Unambiguous : \E B \in BoundSets(d) :
             adjust_bounded_subtree_auth(d, B, a)
  BY <1>6, StartBoundedKeeps
<1>7. CASE AdjustBound
  BY <1>7, AdjustBoundKeeps
<1>8. CASE SwallowAbove
  BY <1>8, SwallowAboveKeeps
<1>9. CASE BoundsDone
  BY <1>9, BoundsDoneKeeps
<1>10. CASE SwallowStray
  BY <1>10, SwallowStrayKeeps
<1>11. CASE StraysDone
  BY <1>11, StraysDoneKeeps
<1>12. CASE BoundedEnds
  BY <1>12, BoundedEndsKeeps
<1>13. CASE \E i \in Movable, d \in Dirs : Rename(i, d)
  BY <1>13, RenameKeeps
<1>14. CASE RenameRoot
  BY <1>14, RenameRootKeeps
<1>15. CASE RenameNested
  BY <1>15, RenameNestedKeeps
<1>16. CASE RenameEnds
  BY <1>16, RenameEndsKeeps
<1>17. CASE \E d \in Dirs : trim_dirfrag(d)
  BY <1>17, TrimKeeps
<1>18. CASE \E d \in Dirs : OpenDirfrag(d)
  BY <1>18, OpenKeeps
<1>19. CASE UNCHANGED vars
  BY <1>19, StutterKeeps
<1> QED BY <1>1, <1>2, <1>3, <1>4, <1>5, <1>6, <1>7, <1>8, <1>9, <1>10, <1>11, <1>12, <1>13,
           <1>14, <1>15, <1>16, <1>17, <1>18, <1>19 DEF Next

(* The invariant is strong enough for the map: the bounds match the         *)
(* authorities.                                                             *)
LEMMA InvGivesBounds == IInv => BoundsMatchAuth
<1> SUFFICES ASSUME IInv PROVE BoundsMatchAuth
  OBVIOUS
<1>1. TypeOK
  BY DEF IInv
<1>2. ASSUME op = idle
      PROVE  /\ DOMAIN subtrees = {d \in cached : dir_auth[d] # CDIR_AUTH_DEFAULT}
             /\ \A r \in DOMAIN subtrees :
                  subtrees[r] = {b \in DOMAIN subtrees \ {Root} :
                                   get_subtree_root(Now, get_parent_dir(b)) = r}
  <2>1. /\ DOMAIN subtrees = R
        /\ \A r \in R : subtrees[r] = {b \in R \ {Root} : Top[parent[ino[b]]] = r}
    BY <1>1, <1>2, FitsFacts DEF IInv, idle
  <2>2. R = {d \in cached : dir_auth[d] # CDIR_AUTH_DEFAULT}
    BY <1>1 DEF TypeOK, R, Roots
  <2>3. ASSUME NEW b \in R \ {Root} PROVE get_subtree_root(Now, get_parent_dir(b)) = Top[parent[ino[b]]]
    <3>1. b \in Dirs
      BY <1>1, Facts
    <3>2. parent[ino[b]] \in Dirs
      BY <1>1, <3>1, ParentFacts
    <3> QED BY <1>1, <3>2, AuthorityIs DEF get_parent_dir
  <2> QED BY <2>1, <2>2, <2>3
<1>3. op.name = "verify" => subtrees[op.dir] = op.bounds
  BY DEF IInv, BoundedInv
<1>4. ASSUME op.name = "rename", oldparent # newparent
      PROVE  /\ op.roots \subseteq subtrees[oldparent]
             /\ \A b \in tomove : get_subtree_root(Now, get_parent_dir(b)) = newparent
  <2>1. RenameInv /\ op.olddir \in Dirs /\ op.newdir \in Dirs
    BY <1>1, <1>4, RenameFacts DEF IInv
  <2>2. PICK o, w : o = Top[op.olddir] /\ w = Top[op.newdir]
    OBVIOUS
  <2>3. oldparent = o /\ newparent = w /\ o \in R /\ o # w
    BY <1>1, <1>4, <2>1, <2>2, AuthorityIs, Facts DEF oldparent, newparent
  <2>4. PICK X \in SUBSET (R \ {Root}) :
          /\ FitsBut(parent, R, Top, subtrees, X, o)
          /\ \A b \in X : Top[parent[ino[b]]] = w
          /\ op.roots \subseteq X
    BY <2>1, <2>2, <2>3 DEF RenameInv
  <2>5. subtrees[o] = {b \in R \ {Root} : o = IF b \in X THEN o ELSE Top[parent[ino[b]]]}
    BY <2>3, <2>4 DEF FitsBut
  <2>6. op.roots \subseteq subtrees[o]
    BY <2>4, <2>5
  <2>7. ASSUME NEW b \in tomove PROVE get_subtree_root(Now, get_parent_dir(b)) = w
    <3>1. b \in subtrees[o] /\ get_subtree_root(Now, get_parent_dir(b)) # o
      BY <2>3 DEF tomove
    <3>2. b \in Dirs /\ b # Root
      BY <1>1, <2>5, <3>1, Facts
    <3>3. parent[ino[b]] \in Dirs
      BY <1>1, <3>2, ParentFacts
    <3>4. get_subtree_root(Now, get_parent_dir(b)) = Top[parent[ino[b]]]
      BY <1>1, <3>3, AuthorityIs DEF get_parent_dir
    <3> QED BY <2>4, <2>5, <3>1, <3>4
  <2> QED BY <2>3, <2>6, <2>7
<1> QED BY <1>2, <1>3, <1>4 DEF BoundsMatchAuth

(* The invariant is strong enough for the authorities: they changed as      *)
(* asked.                                                                   *)
LEMMA InvGivesAuthority == IInv => AuthorityChangesAsAsked
<1> SUFFICES ASSUME IInv PROVE AuthorityChangesAsAsked
  OBVIOUS
<1>1. TypeOK /\ Authorities = [x \in cached |-> dir_auth[Top[x]]] /\ cached \subseteq Dirs
  BY AuthorityIs DEF IInv, TypeOK
<1>2. ASSUME op.name = "verify", NEW x \in cached
      PROVE  IF x \in Region(op.dir, op.bounds) THEN authority(Now, x) = op.auth
             ELSE \/ authority(Now, x) = before[x]
                  \/ /\ \E b, c \in op.bounds : b # c
                     /\ Beneath(x, op.dir) /\ authority(Now, x) = op.oldauth
  <2>1. /\ Fits(parent, R, Top, subtrees) /\ Asked /\ AskedAuthority /\ subtrees[op.dir] = op.bounds
        /\ Open = {}
    BY <1>2 DEF IInv, BoundedInv, Open
  <2>2. x \in Dirs /\ authority(Now, x) = dir_auth[Top[x]] /\ op.dir \in Dirs /\ op.bounds \in SUBSET Dirs
    BY <1>1, <1>2, AuthorityIs, BoundedOp DEF TypeOK, BoundedNames
  <2>3. \A a : Beneath(x, a) = Under(x, a)
    BY BeneathIsBeneathIn DEF Under
  <2>4. CASE x \in Region(op.dir, op.bounds)
    <3>1. Under(x, op.dir) /\ \A b \in op.bounds : ~Under(x, b)
      BY <2>3, <2>4 DEF Region
    <3>2. Top[x] = op.dir
      BY <1>1, <2>1, <2>2, <3>1, InOrBeyond DEF Asked
    <3> QED BY <2>1, <2>2, <2>4, <3>2 DEF Asked
  <2>5. CASE x \notin Region(op.dir, op.bounds)
    <3>1. ~Under(x, op.dir) \/ \E b \in op.bounds : Under(x, b)
      BY <2>3, <2>5 DEF Region
    <3>2. CASE ~Under(x, op.dir)
      BY <2>1, <2>2, <2>5, <3>2 DEF AskedAuthority, Kept
    <3>3. CASE \E b \in op.bounds : Under(x, b)
      <4>1. PICK b \in op.bounds : Under(x, b)
        BY <3>3
      <4>2. before[x] = dir_auth[Top[x]] \/ (Many /\ dir_auth[Top[x]] = op.oldauth)
        BY <2>1, <4>1 DEF AskedAuthority, Kept
      <4>3. Under(x, op.dir)
        BY <1>1, <2>1, <2>2, <4>1, UnderFacts DEF Asked
      <4> QED BY <2>2, <2>3, <2>5, <4>2, <4>3 DEF Many
    <3> QED BY <3>1, <3>2, <3>3
  <2> QED BY <2>4, <2>5
<1>3. op.name = "merge" => Authorities = before
  BY <1>1 DEF IInv, MergeInv
<1>4. ASSUME op.name = "rename", op.roots = {}, op.nested = {} PROVE Authorities = before
  <2>1. RenameInv
    BY <1>4 DEF IInv
  <2>2. before = [x \in cached |-> before[x]] /\ \A x \in cached : before[x] = dir_auth[Top[x]]
    BY <1>4, <2>1 DEF RenameInv, Waits, Kept
  <2> QED BY <1>1, <2>2
<1> QED BY <1>2, <1>3, <1>4 DEF AuthorityChangesAsAsked

(* MDCache::subtrees and the dir_auth of the dirfrags agree between         *)
(* operations and within them, whatever the tree, the ranks, the order of   *)
(* the loops over std::set<CDir*> and the number of operations:             *)
(* show_subtrees and verify_subtree_bounds never find a bound too many or   *)
(* too few.                                                                 *)
THEOREM BoundsMatchAuthAlways == Spec => []BoundsMatchAuth
<1>1. Init => IInv
  BY InitEstablishes
<1>2. IInv /\ [Next]_vars => IInv'
  BY NextKeeps
<1>3. IInv => BoundsMatchAuth
  BY InvGivesBounds
<1> QED BY <1>1, <1>2, <1>3, PTL DEF Spec

(* adjust_bounded_subtree_auth changes the authority of its region only,    *)
(* try_subtree_merge and adjust_subtree_after_rename change nobody's, for   *)
(* every tree and every sequence of operations.                             *)
THEOREM AuthorityChangesAsAskedAlways == Spec => []AuthorityChangesAsAsked
<1>1. Init => IInv
  BY InitEstablishes
<1>2. IInv /\ [Next]_vars => IInv'
  BY NextKeeps
<1>3. IInv => AuthorityChangesAsAsked
  BY InvGivesAuthority
<1> QED BY <1>1, <1>2, <1>3, PTL DEF Spec
=============================================================================
