------------------------------ MODULE FilesTab ------------------------------
(***************************************************************************)
(* The files tab of a rope (web/src/features/files/FilesTab.tsx,           *)
(* PhotoTimeline.tsx, api.ts) over the server of module Files: a form for  *)
(* photos and one for documents, the lists, and the Delete buttons.        *)
(*                                                                         *)
(* A request of Files is sent from here or, for a delete, by somebody      *)
(* else. The tab stays open, with its lists loaded: what a first load may  *)
(* miss, and the service worker, are ClientCache's.                        *)
(***************************************************************************)
EXTENDS Files

CONSTANTS
  Local,  \* the files on the user's disk
  Used    \* bound: the forms, of which a behaviour uses one

ASSUME TabAssumption == Photo \cap Doc = {} /\ None \notin Local

VARIABLES
  uses,      \* the form this behaviour uses: the two share nothing
  chosen,    \* the file in each form
  client,    \* what the page knows of each request
  of,        \* the local file each upload is of
  target,    \* the photo each delete of this page is of
  latest,    \* the upload whose mutation each form shows as pending
  list,      \* the query of each list
  parted     \* history: uploads whose form was changed or sent again meanwhile

tabvars == <<uses, chosen, client, of, target, latest, list, parted>>

Form == {"photo", "document"}

Uploads(k) == IF k = "photo" THEN Photo ELSE Doc

FormOf(f) == IF f \in Photo THEN "photo" ELSE "document"

TabInit ==
  /\ Init
  /\ uses \in Used
  /\ chosen = [k \in Form |-> None]
  /\ client = [r \in Request |-> "none"]
  /\ of = [f \in File |-> None]
  /\ target = [r \in Remover |-> None]
  /\ latest = [k \in Form |-> None]
  /\ list = [k \in Form |-> [shown |-> {}, fetch |-> "none", got |-> {}]]
  /\ parted = {}

-----------------------------------------------------------------------------
(* The forms.                                                              *)

\* upload.isPending: of the last mutateAsync only.
Pending(k) == latest[k] # None

Settled(f) ==
  latest' = [k \in Form |-> IF latest[k] = f THEN None ELSE latest[k]]

\* Submissions that have not come back.
UnderWay(k) == {f \in Uploads(k) : client[f] \in {"reading", "pending"}}

\* The user picks a file, or none, at any time.
Choose(k) ==
  /\ k = uses
  /\ \E x \in Local \cup {None} :
       /\ x # chosen[k]
       /\ chosen' = [chosen EXCEPT ![k] = x]
       /\ parted' = parted \cup {f \in Uploads(k) : client[f] \notin {"none", "ok"} /\ of[f] # x}
  /\ UNCHANGED <<vars, uses, client, of, target, latest, list>>

\* submit, up to its first await: the file is being read, and the button is
\* still enabled.
Submit(k) ==
  /\ k = uses /\ chosen[k] # None /\ ~Pending(k)
  /\ \E f \in Uploads(k) :
       /\ client[f] = "none"
       /\ client' = [client EXCEPT ![f] = "reading"]
       /\ of' = [of EXCEPT ![f] = chosen[k]]
       /\ parted' = parted \cup (IF \E g \in UnderWay(k) : of[g] # chosen[k] THEN {f} ELSE {})
                          \cup {g \in UnderWay(k) : of[g] # chosen[k]}
  /\ UNCHANGED <<vars, uses, chosen, target, latest, list>>

\* reader.onerror: nothing catches the rejection, nothing is shown.
ReadFails(f) ==
  /\ client[f] = "reading"
  /\ client' = [client EXCEPT ![f] = "unread"]
  /\ UNCHANGED <<vars, uses, chosen, of, target, latest, list, parted>>

\* mutateAsync: the request is sent.
Mutate(f) ==
  /\ client[f] = "reading"
  /\ client' = [client EXCEPT ![f] = "pending"]
  /\ latest' = [latest EXCEPT ![FormOf(f)] = f]
  /\ UNCHANGED <<vars, uses, chosen, of, target, list, parted>>

\* invalidateQueries of a list that is on the screen.
Refetched(k) == [list EXCEPT ![k].fetch = "sent"]

\* The upload is answered: the list is fetched again, and the form is cleared,
\* whatever is in it by now.
Uploaded(f) ==
  /\ client[f] = "pending" /\ pc[f] = "done"
  /\ client' = [client EXCEPT ![f] = "ok"]
  /\ chosen' = [chosen EXCEPT ![FormOf(f)] = None]
  /\ list' = Refetched(FormOf(f))
  /\ parted' = parted \ {f}
  /\ Settled(f)
  /\ UNCHANGED <<vars, uses, of, target>>

\* Mutant: the form is cleared whether or not mutateAsync throws.
UploadFailsCleared(f) ==
  /\ client[f] = "pending"
  /\ client' = [client EXCEPT ![f] = "failed"]
  /\ chosen' = [chosen EXCEPT ![FormOf(f)] = None]
  /\ Settled(f)
  /\ UNCHANGED <<vars, uses, of, target, list, parted>>

\* The request fails, or its answer is lost: mutateAsync throws, the rest of
\* submit does not run.
UploadFails(f) ==
  /\ client[f] = "pending"
  /\ client' = [client EXCEPT ![f] = "failed"]
  /\ Settled(f)
  /\ UNCHANGED <<vars, uses, chosen, of, target, list, parted>>

-----------------------------------------------------------------------------
(* The photos on the page.                                                 *)

\* Delete, confirmed: the buttons are disabled while one delete is pending.
Remove(r) ==
  /\ client[r] = "none" /\ pc[r] = "idle"
  /\ \A s \in Remover : client[s] # "pending"
  /\ \E p \in list["photo"].shown :
       target' = [target EXCEPT ![r] = p]
  /\ client' = [client EXCEPT ![r] = "pending"]
  /\ UNCHANGED <<vars, uses, chosen, of, latest, list, parted>>

\* Mutant: no invalidateQueries.
RemovedOnly(r) ==
  /\ client[r] = "pending" /\ pc[r] = "done"
  /\ client' = [client EXCEPT ![r] = "ok"]
  /\ UNCHANGED <<vars, uses, chosen, of, target, latest, list, parted>>

Removed(r) ==
  /\ client[r] = "pending" /\ pc[r] = "done"
  /\ client' = [client EXCEPT ![r] = "ok"]
  /\ list' = Refetched("photo")
  /\ UNCHANGED <<vars, uses, chosen, of, target, latest, parted>>

\* A 404 too, when somebody else was faster: the list stays as it is.
RemoveFails(r) ==
  /\ client[r] = "pending"
  /\ client' = [client EXCEPT ![r] = "failed"]
  /\ UNCHANGED <<vars, uses, chosen, of, target, latest, list, parted>>

\* After a failure the list is asked for again: the retry, or the connection is
\* back.
Retry(k) ==
  /\ list[k].fetch = "failed"
  /\ list' = Refetched(k)
  /\ UNCHANGED <<vars, uses, chosen, client, of, target, latest, parted>>

ServeList(k) ==
  /\ list[k].fetch = "sent"
  /\ list' = [list EXCEPT ![k].fetch = "read", ![k].got = row \cap Uploads(k)]
  /\ UNCHANGED <<vars, uses, chosen, client, of, target, latest, parted>>

ListArrives(k) ==
  /\ list[k].fetch = "read"
  /\ list' = [list EXCEPT ![k] = [shown |-> @.got, fetch |-> "none", got |-> {}]]
  /\ UNCHANGED <<vars, uses, chosen, client, of, target, latest, parted>>

ListFails(k) ==
  /\ list[k].fetch # "none"
  /\ list' = [list EXCEPT ![k].fetch = "failed", ![k].got = {}]
  /\ UNCHANGED <<vars, uses, chosen, client, of, target, latest, parted>>

-----------------------------------------------------------------------------
(* The server of module Files, asked by this page or, for deletes, by      *)
(* somebody else.                                                          *)

Sent(f) == client[f] \in {"pending", "failed"}

DeleteTarget(r) ==
  /\ Delete(r)
  /\ target[r] # None =>
       IF target[r] \in row THEN victim'[r] = target[r] ELSE pc'[r] = "failed"

Server ==
  /\ \/ \E f \in File : Sent(f) /\ UploadStep(f)
     \/ \E r \in Remover : DeleteTarget(r) \/ Purge(r)
     \/ \E r \in Request : Cancel(r)
  /\ UNCHANGED tabvars

TabNext ==
  \/ Server
  \/ \E k \in Form : Choose(k) \/ Submit(k) \/ Retry(k) \/ ServeList(k)
                       \/ ListArrives(k) \/ ListFails(k)
  \/ \E f \in File : ReadFails(f) \/ Mutate(f) \/ Uploaded(f) \/ UploadFails(f)
  \/ \E r \in Remover : Remove(r) \/ Removed(r) \/ RemoveFails(r)

TabSpec == TabInit /\ [][TabNext]_<<vars, tabvars>>

-----------------------------------------------------------------------------
(* Properties.                                                             *)

\* A submitted file is not lost: when its upload has failed it is still in the
\* form, or was stored by another upload of it. The exception is a form that
\* was changed, or sent again with another file, while it was under way: the
\* first success clears whatever the form holds then.
FailedIsKept ==
  \A f \in File \ parted :
    client[f] \in {"failed", "unread"}
    => \/ chosen[FormOf(f)] = of[f]
       \/ \E g \in Uploads(FormOf(f)) : of[g] = of[f] /\ client[g] = "ok"

\* Once the list is quiet, what this page has been told it uploaded or deleted
\* shows: a photo it deleted is gone, an upload is there unless somebody has
\* deleted it behind its back.
ToldIsShown ==
  \A k \in Form : list[k].fetch = "none" =>
    /\ \A r \in Remover : client[r] = "ok" => target[r] \notin list[k].shown
    /\ \A f \in Uploads(k) :
         client[f] = "ok" /\ (\A r \in Remover : victim[r] # f) => f \in list[k].shown
=============================================================================
