------------------------------ MODULE MCDelivery ------------------------------
(* One user who presses twice at the same time, one title, release and     *)
(* file.                                                                    *)
EXTENDS Delivery, TLC

Symmetric == Permutations(Slots)

(* The bound of the run: the catalogue takes every shape before the first  *)
(* press; presses and days are explored while it holds a movie with rights *)
(* and a public release with a file, whose title and release the panel     *)
(* publishes and takes back.                                               *)
Untouched ==
  /\ day = 0
  /\ \A u \in Users : account[u] = "ACTIVE" /\ subscribed[u] = "none"
  /\ \A u \in Users, d \in Days : used[u][d] = 0
  /\ \A h \in Slots : press[h] = NoPress

Deliverable ==
  /\ \A t \in Titles : title[t].kind = "MOVIE" /\ title[t].rights
  /\ \A t \in Titles : tree[t] = "none"
  /\ \A r \in Releases : release[r].files # {} /\ release[r].policy # "none"
  /\ \A p \in Panels : panel[p].at # "upload" /\ panel[p].rights = "same"

Explored == Untouched \/ Deliverable
=============================================================================
