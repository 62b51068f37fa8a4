------------------------------- MODULE Files -------------------------------
(***************************************************************************)
(* Condition photos and documents: the upload and delete handlers          *)
(* (api/internal/httpapi/files.go) over the object store                   *)
(* (api/internal/storage) and AddPhoto, AddDocument and DeletePhoto        *)
(* (api/internal/store/files.go).                                          *)
(*                                                                         *)
(* The object store and the database have no transaction in common: an     *)
(* upload puts the object and then inserts the row, a delete takes the     *)
(* row and then removes the object, and the server may stop, or the client *)
(* leave, in between. A file is named by the request that uploads it,      *)
(* since every upload makes a key of its own.                              *)
(***************************************************************************)
CONSTANTS
  Photo,    \* requests that upload a photo, and the photos they upload
  Doc,      \* requests that upload a document
  Remover,  \* requests that delete a photo
  None

File == Photo \cup Doc

Request == File \cup Remover

ASSUME ConstantsAssumption == File \cap Remover = {} /\ None \notin File

VARIABLES
  object,   \* the objects in the bucket
  row,      \* the rows of condition_photo and document, committed
  outbox,   \* the files with a photo.added or document.added event
  pc,       \* how far each request has come
  victim    \* the photo whose row a request has deleted

vars == <<object, row, outbox, pc, victim>>

Init ==
  /\ object = {} /\ row = {} /\ outbox = {}
  /\ pc = [r \in Request |-> "idle"]
  /\ victim = [r \in Remover |-> None]

-----------------------------------------------------------------------------
Goto(r, stage) == pc' = [pc EXCEPT ![r] = stage]

\* The transaction of AddPhoto or AddDocument: the row and its event.
Added(f) == row' = row \cup {f} /\ outbox' = outbox \cup {f}

Put(f) ==
  /\ pc[f] = "idle" /\ Goto(f, "put")
  /\ object' = object \cup {f}
  /\ UNCHANGED <<row, outbox, victim>>

\* Put returns an error; whether the object was stored is not known.
PutFails(f) ==
  /\ pc[f] = "idle" /\ Goto(f, "failed")
  /\ object' \in {object, object \cup {f}}
  /\ UNCHANGED <<row, outbox, victim>>

Add(f) ==
  /\ pc[f] = "put" /\ Goto(f, "done")
  /\ Added(f)
  /\ UNCHANGED <<object, victim>>

\* Mutant: the handler removes the object when AddPhoto returns an error.
AddFailsCleaning(f) ==
  /\ pc[f] = "put" /\ Goto(f, "failed")
  /\ Added(f) \/ UNCHANGED <<row, outbox>>
  /\ object' = object \ {f}
  /\ UNCHANGED victim

\* The line or the inspection does not exist, or the request's context ends;
\* an error from Commit does not say whether the transaction took effect.
AddFails(f) ==
  /\ pc[f] = "put" /\ Goto(f, "failed")
  /\ Added(f) \/ UNCHANGED <<row, outbox>>
  /\ UNCHANGED <<object, victim>>

\* DELETE ... RETURNING file_ref of a photo some list has shown. Of two
\* requests for one photo, the second finds no row and answers 404.
Delete(r) ==
  /\ pc[r] = "idle"
  /\ \E p \in Photo \cap outbox :
       IF p \in row
       THEN /\ row' = row \ {p}
            /\ victim' = [victim EXCEPT ![r] = p]
            /\ Goto(r, "purge")
            /\ UNCHANGED <<object, outbox>>
       ELSE /\ Goto(r, "failed")
            /\ UNCHANGED <<object, row, outbox, victim>>

\* The object is removed, or the error is ignored.
Purge(r) ==
  /\ pc[r] = "purge" /\ Goto(r, "done")
  /\ object' \in {object, object \ {victim[r]}}
  /\ UNCHANGED <<row, outbox, victim>>

\* The server stops, or the statement never reaches the database.
Cancel(r) ==
  /\ pc[r] \in {"put", "purge"} /\ Goto(r, "failed")
  /\ UNCHANGED <<object, row, outbox, victim>>

UploadStep(f) == Put(f) \/ PutFails(f) \/ Add(f) \/ AddFails(f)

Next ==
  \/ \E f \in File : UploadStep(f)
  \/ \E r \in Remover : Delete(r) \/ Purge(r)
  \/ \E r \in Request : Cancel(r)

Spec == Init /\ [][Next]_vars

-----------------------------------------------------------------------------
(* Properties.                                                             *)

TypeOK ==
  /\ object \subseteq File /\ row \subseteq File /\ outbox \subseteq File
  /\ pc \in [Request -> {"idle", "put", "purge", "done", "failed"}]
  /\ victim \in [Remover -> Photo \cup {None}]

\* Every photo and document the register shows has its object, wherever an
\* upload or a delete stopped and whatever error it met.
RowsHaveObject == row \subseteq object
=============================================================================
