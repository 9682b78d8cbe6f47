------------------------------- MODULE Catalogue -------------------------------
(***************************************************************************)
(* What the administration panel keeps in the catalogue: titles with their *)
(* seasons and episodes, releases, stored files and access policies        *)
(* (app/api/admin.py, app/api/admin_extended.py,                           *)
(* app/services/content_admin.py, app/services/storage_ingest.py).         *)
(*                                                                         *)
(* An edit is a transaction that reads a row without locking it, checks    *)
(* the request against what it has read, and writes the columns it was     *)
(* given that differ: it is two actions here.  Rows are never deleted, and *)
(* an insertion whose checks no other transaction can undo is one action;  *)
(* unique keys decide between rivals.  CONTENT_RIGHTS_REQUIRED is on, as   *)
(* it is by default.  The releases that the content pipeline makes are     *)
(* created, get their file and are published by the same checks.           *)
(***************************************************************************)
EXTENDS Naturals

CONSTANTS
  Titles, Releases, Files,
  Panels,      \* requests of the panel that are handled at the same time
  None         \* no title, release or file

ASSUME CatalogueAssumption == None \notin Titles \cup Releases \cup Files

VARIABLES
  title,      \* title[t]: the row of t
  tree,       \* tree[t]: how far its series row, seasons and episodes go
  release,    \* release[r]: the row of r, its release_files and its policy
  stored,     \* stored[f]: the row of f in storage_files
  panel       \* panel[p]: the transaction request p is in

catalogueVars == <<title, tree, release, stored, panel>>

-----------------------------------------------------------------------------
(* DRAFT stands for every status that is not public.  ANIMATION behaves as *)
(* MOVIE does, but may have a series row.                                  *)
TitleRow == [status : {"NONE", "DRAFT", "PUBLISHED"}, kind : {"MOVIE", "SERIES", "ANIMATION"},
             rights : BOOLEAN]

NoTitle == [status |-> "NONE", kind |-> "MOVIE", rights |-> FALSE]

Trees == {"none", "series", "season", "episode"}

(* READY stands for every status that is not public.  of: the title, for a *)
(* series through an episode.                                              *)
ReleaseRow == [status : {"NONE", "READY", "PUBLISHED"}, of : Titles \cup {None},
               files : SUBSET Files, policy : {"none", "open", "premium"}]

NoRelease == [status |-> "NONE", of |-> None, files |-> {}, policy |-> "none"]

(* A file that the panel registered without a file_id is "bare".           *)
StoredStates == {"NONE", "bare", "READY"}

(* What a request that has read is going to write: "same" is no column.    *)
Request == [at : {"idle", "title", "release", "upload"}, title : Titles \cup {None},
            release : Releases \cup {None}, file : Files \cup {None},
            status : {"same", "DRAFT", "READY", "PUBLISHED"}, rights : {"same", "yes", "no"}]

NoRequest == [at |-> "idle", title |-> None, release |-> None, file |-> None,
              status |-> "same", rights |-> "same"]

Public(r) == release[r].status = "PUBLISHED" /\ title[release[r].of].status = "PUBLISHED"

Begin(p, request) == panel' = [panel EXCEPT ![p] = request]

End(p) == panel' = [panel EXCEPT ![p] = NoRequest]

-----------------------------------------------------------------------------
(* A title is published only with its rights.                              *)
NewTitle(t, kind, status, rights) ==
  /\ status = "PUBLISHED" => rights
  /\ title' = [title EXCEPT ![t] = [status |-> status, kind |-> kind, rights |-> rights]]
  /\ tree' = [tree EXCEPT ![t] = IF kind = "SERIES" THEN "series" ELSE "none"]

CreateTitle(t, kind, status, rights) ==
  /\ title[t].status = "NONE"
  /\ NewTitle(t, kind, status, rights)
  /\ UNCHANGED <<release, stored, panel>>

Grow(t, part) ==
  /\ tree' = [tree EXCEPT ![t] = part]
  /\ UNCHANGED <<title, release, stored, panel>>

(* A series got its row with its title; an animation may get one later.    *)
CreateSeries(t) ==
  /\ title[t].status # "NONE" /\ title[t].kind = "ANIMATION"
  /\ tree[t] = "none"
  /\ Grow(t, "series")

CreateSeason(t) == tree[t] = "series" /\ Grow(t, "season")

CreateEpisode(t) == tree[t] = "season" /\ Grow(t, "episode")

(* PATCH /titles reads the row and checks: publishing needs the rights,    *)
(* given or read, and the rights of a published title stay.                *)
LoadTitle(p, t, status, rights) ==
  LET row == title[t]
  IN /\ panel[p] = NoRequest
     /\ row.status # "NONE"
     /\ status = "PUBLISHED" => (rights = "yes" \/ (rights = "same" /\ row.rights))
     /\ ~(rights = "no" /\ row.status = "PUBLISHED")
     /\ Begin(p, [NoRequest EXCEPT !.at = "title", !.title = t,
                                   !.status = IF status = row.status THEN "same" ELSE status,
                                   !.rights = IF (rights = "yes") = row.rights THEN "same" ELSE rights])
     /\ UNCHANGED <<title, tree, release, stored>>

SaveTitle(p) ==
  LET w == panel[p]
  IN /\ w.at = "title"
     /\ title' = [title EXCEPT ![w.title].status = IF w.status = "same" THEN @ ELSE w.status,
                               ![w.title].rights = IF w.rights = "same" THEN @ ELSE w.rights = "yes"]
     /\ End(p)
     /\ UNCHANGED <<tree, release, stored>>

-----------------------------------------------------------------------------
(* Mutant: a title that is not there is not refused.                       *)
TakesReleaseAny(t) ==
  /\ title[t].kind # "SERIES"
  /\ title[t].status = "PUBLISHED" => title[t].rights

(* A title that is public without rights gets no release, nor a series.    *)
TakesRelease(t) ==
  /\ title[t].status # "NONE" /\ title[t].kind # "SERIES"
  /\ title[t].status = "PUBLISHED" => title[t].rights

HasEpisode(t) == tree[t] = "episode"

Accepts(t) == TakesRelease(t) \/ HasEpisode(t)

(* A release is created with no public status.                             *)
CreateRelease(r, t) ==
  /\ release[r].status = "NONE"
  /\ \A p \in Panels : panel[p].release # r
  /\ Accepts(t)
  /\ release' = [release EXCEPT ![r] = [NoRelease EXCEPT !.status = "READY", !.of = t]]
  /\ UNCHANGED <<title, tree, stored, panel>>

(* The access policy that the quality matrix writes for its targets.       *)
SetPolicy(r, policy) ==
  /\ release[r].status # "NONE"
  /\ release[r].policy # policy
  /\ release' = [release EXCEPT ![r].policy = policy]
  /\ UNCHANGED <<title, tree, stored, panel>>

(* The first registration of a file counts: the panel's may lack the       *)
(* file_id, the storage channel's has it.                                  *)
Register(f, state) ==
  /\ stored[f] = "NONE"
  /\ stored' = [stored EXCEPT ![f] = state]
  /\ UNCHANGED <<title, tree, release, panel>>

Attach(r, f) ==
  /\ release[r].status # "NONE"
  /\ stored[f] = "READY"
  /\ release' = [release EXCEPT ![r].files = @ \cup {f}]
  /\ UNCHANGED <<title, tree, stored, panel>>

(* PATCH /releases reads the release, its title and its files: publishing  *)
(* needs the title's rights and a file.                                    *)
LoadRelease(p, r, status) ==
  LET row == release[r]
  IN /\ panel[p] = NoRequest
     /\ row.status # "NONE"
     /\ status = "PUBLISHED" => title[row.of].rights /\ row.files # {}
     /\ Begin(p, [NoRequest EXCEPT !.at = "release", !.release = r,
                                   !.status = IF status = row.status THEN "same" ELSE status])
     /\ UNCHANGED <<title, tree, release, stored>>

SaveRelease(p) ==
  LET w == panel[p]
  IN /\ w.at = "release"
     /\ release' = [release EXCEPT ![w.release].status = IF w.status = "same" THEN @ ELSE w.status]
     /\ End(p)
     /\ UNCHANGED <<title, tree, stored>>

(* POST /upload/attach makes a release of a file, attaches it and may      *)
(* publish it, in one transaction that checks as it goes.                  *)
LoadUpload(p, r, t, f, status) ==
  /\ panel[p] = NoRequest
  /\ release[r].status = "NONE"
  /\ \A q \in Panels : panel[q].release # r
  /\ stored[f] = "READY"
  /\ Accepts(t)
  /\ status = "PUBLISHED" => title[t].rights
  /\ Begin(p, [NoRequest EXCEPT !.at = "upload", !.title = t, !.release = r, !.file = f,
                                !.status = status])
  /\ UNCHANGED <<title, tree, release, stored>>

SaveUpload(p) ==
  LET w == panel[p]
  IN /\ w.at = "upload"
     /\ release' = [release EXCEPT ![w.release] =
                      [NoRelease EXCEPT !.status = w.status, !.of = w.title, !.files = {w.file}]]
     /\ End(p)
     /\ UNCHANGED <<title, tree, stored>>

(* The transaction is rolled back: a lost connection, or a later refusal.  *)
PanelFails(p) ==
  /\ panel[p] # NoRequest
  /\ End(p)
  /\ UNCHANGED <<title, tree, release, stored>>

-----------------------------------------------------------------------------
CatalogueInit ==
  /\ title = [t \in Titles |-> NoTitle]
  /\ tree = [t \in Titles |-> "none"]
  /\ release = [r \in Releases |-> NoRelease]
  /\ stored = [f \in Files |-> "NONE"]
  /\ panel = [p \in Panels |-> NoRequest]

(* Requests that are one action.                                           *)
Inserts ==
  \/ \E t \in Titles : CreateSeries(t) \/ CreateSeason(t) \/ CreateEpisode(t)
  \/ \E t \in Titles, kind \in {"MOVIE", "SERIES", "ANIMATION"},
        status \in {"DRAFT", "PUBLISHED"}, rights \in BOOLEAN : CreateTitle(t, kind, status, rights)
  \/ \E r \in Releases, t \in Titles : CreateRelease(r, t)
  \/ \E r \in Releases, policy \in {"open", "premium"} : SetPolicy(r, policy)
  \/ \E f \in Files, state \in {"bare", "READY"} : Register(f, state)
  \/ \E r \in Releases, f \in Files : Attach(r, f)

Loads(p) ==
  \/ \E t \in Titles, status \in {"same", "DRAFT", "PUBLISHED"}, rights \in {"same", "yes", "no"} :
       LoadTitle(p, t, status, rights)
  \/ \E r \in Releases, status \in {"READY", "PUBLISHED"} : LoadRelease(p, r, status)
  \/ \E r \in Releases, t \in Titles, f \in Files, status \in {"READY", "PUBLISHED"} :
       LoadUpload(p, r, t, f, status)

Saves(p) == SaveTitle(p) \/ SaveRelease(p) \/ SaveUpload(p) \/ PanelFails(p)

CatalogueNext == Inserts \/ \E p \in Panels : Loads(p) \/ Saves(p)

-----------------------------------------------------------------------------
CatalogueTypeOK ==
  /\ title \in [Titles -> TitleRow]
  /\ tree \in [Titles -> Trees]
  /\ release \in [Releases -> ReleaseRow]
  /\ stored \in [Files -> StoredStates]
  /\ panel \in [Panels -> Request]
  /\ \A r \in Releases :
       release[r].status # "NONE" => release[r].of \in Titles /\ title[release[r].of].status # "NONE"
=============================================================================
