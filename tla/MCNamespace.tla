----------------------------- MODULE MCNamespace -----------------------------
(* Small instances of Namespace. *)
EXTENDS Namespace

(* The namespace whose dentries are the given function and no others, with  *)
(* inodes of the given types; the numbers above n are used up.              *)
TreeOf(links, types, n) ==
  LET dn == [s \in Slots |-> IF s \in DOMAIN links THEN links[s] ELSE Null]
      Linked(i) == [type |-> types[i],
                    nlink |-> IF i = Root THEN 1 ELSE Cardinality({s \in Slots : dn[s].ino = i}),
                    parent |-> IF i = Root THEN NoSlot ELSE CHOOSE s \in Slots : dn[s] = Primary(i)]
  IN  [dn |-> dn,
       in |-> [i \in Inos |-> IF i \in DOMAIN types THEN Linked(i)
                              ELSE [NoInode EXCEPT !.type = IF i > n THEN "gone" ELSE "none"]],
       fr |-> [d \in {Stray} \cup Inos |-> Cardinality({s \in Slots : s[1] = d /\ dn[s] # Null})]]

(* A directory; two directories; a directory and a file of one or two names. *)
Dir == TreeOf(<<1, "a">> :> Primary(2), <<"dir", "dir">>, 3)
Dirs == TreeOf(<<1, "a">> :> Primary(2) @@ <<1, "b">> :> Primary(3), <<"dir", "dir", "dir">>, 3)
File == TreeOf(<<1, "a">> :> Primary(2) @@ <<1, "b">> :> Primary(3), <<"dir", "dir", "file">>, 3)
Links == TreeOf(<<1, "a">> :> Primary(2) @@ <<1, "b">> :> Primary(3) @@ <<2, "a">> :> Remote(3),
                <<"dir", "dir", "file">>, 3)
OneFile == TreeOf(<<1, "a">> :> Primary(2), <<"dir", "file">>, 4)

Directories == {"lookup", "readdir", "setattr", "mknod", "mkdir", "link", "unlink", "rmdir", "rename"}
Opens == {"open", "openc", "symlink", "unlink"}

MCLoads ==
  {[tree |-> t, ops |-> Directories, max |-> 3] : t \in {Dir, Dirs, File, Links}}
    \cup {[tree |-> OneFile, ops |-> Opens, max |-> 2]}

(* One client has looked everything up, the other only the directories. *)
MCOpened == [c \in Clients |-> IF c = "c" THEN {"dir", "file"} ELSE {"dir"}]
==============================================================================
