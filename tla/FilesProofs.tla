---------------------------- MODULE FilesProofs ----------------------------
(***************************************************************************)
(* A photo or document in the database always has its object, a submitted  *)
(* file is not lost, and the lists show what the page was told, for any    *)
(* number of files, uploads and deletes.                                   *)
(***************************************************************************)
EXTENDS FilesTab, TLAPS

-----------------------------------------------------------------------------
(* Why: an object outlives its row, and a deleted row never comes back.    *)

\* A row had an event, so the upload of a file that has one is over.
UploadedOnce ==
  /\ row \subseteq outbox
  /\ \A f \in outbox : pc[f] \in {"done", "failed"}

\* Between Put and Add the object is there, and nobody can name it yet.
ObjectWaits == \A f \in File : pc[f] = "put" => f \in object

\* What is about to be purged has no row.
VictimHasNoRow == \A r \in Remover : pc[r] = "purge" => victim[r] \in outbox \ row

IInv == TypeOK /\ UploadedOnce /\ ObjectWaits /\ VictimHasNoRow /\ RowsHaveObject

-----------------------------------------------------------------------------
(* Why: what a form holds is what its submissions hold, or they are parted *)
(* from it; and a list that was read after an answer agrees with it.       *)

\* An upload that was submitted and has not succeeded.
Waiting(f) == client[f] \in {"reading", "pending", "failed", "unread"}

TabTypeOK ==
  /\ chosen \in [Form -> Local \cup {None}]
  /\ client \in [Request -> {"none", "reading", "pending", "failed", "unread", "ok"}]
  /\ of \in [File -> Local \cup {None}]
  /\ target \in [Remover -> Photo \cup {None}]
  /\ list \in [Form -> [shown : SUBSET File, fetch : {"none", "sent", "read", "failed"},
                        got : SUBSET File]]
  /\ parted \subseteq File

\* A file that waits, and was not parted from its form, is still in the form,
\* or the form has been cleared since by another upload of it.
FormHolds ==
  \A f \in File \ parted : Waiting(f) =>
    \/ chosen[FormOf(f)] = of[f]
    \/ /\ chosen[FormOf(f)] = None
       /\ \E g \in Uploads(FormOf(f)) : of[g] = of[f] /\ client[g] = "ok"

\* While an upload is under way, what waits in the form and is of another file
\* has been parted: its success clears nothing but copies of its own file.
ClearsItsOwn ==
  \A k \in Form : \A f \in UnderWay(k), g \in Uploads(k) :
    Waiting(g) /\ of[f] # of[g] => g \in parted

SubmittedHasFile == \A f \in File : client[f] # "none" => of[f] # None

\* A row goes by a delete, which remembers it, and never comes back.
VictimsGone ==
  /\ \A f \in File : pc[f] = "done" => f \in row \/ \E r \in Remover : victim[r] = f
  /\ \A r \in Remover : /\ victim[r] # None => victim[r] \in outbox \ row
                        /\ pc[r] = "idle" => victim[r] = None

\* What the page was told is what the server did.
ToldTheTruth ==
  /\ \A r \in Request : client[r] = "ok" => pc[r] = "done"
  /\ \A r \in Remover :
       /\ client[r] = "none" <=> target[r] = None
       /\ target[r] # None /\ pc[r] \in {"purge", "done"} => victim[r] = target[r]

\* A set of files agrees with every answer the page has had.
Agrees(k, files) ==
  /\ files \subseteq Uploads(k)
  /\ \A r \in Remover : client[r] = "ok" => target[r] \notin files
  /\ \A f \in Uploads(k) :
       client[f] = "ok" /\ (\A r \in Remover : victim[r] # f) => f \in files

ListsAgree ==
  \A k \in Form :
    /\ list[k].shown \subseteq Uploads(k)
    /\ list[k].fetch = "none" => Agrees(k, list[k].shown)
    /\ list[k].fetch = "read" => Agrees(k, list[k].got)

TabInv ==
  /\ IInv /\ TabTypeOK
  /\ FormHolds /\ ClearsItsOwn /\ SubmittedHasFile
  /\ VictimsGone /\ ToldTheTruth /\ ListsAgree

-----------------------------------------------------------------------------

\* At the start there are no files.
LEMMA InitFiles == Init => IInv
  BY ConstantsAssumption
  DEF Init, IInv, TypeOK, UploadedOnce, ObjectWaits, VictimHasNoRow,
      RowsHaveObject, Request, File

\* Each statement of an upload preserves the invariant: in particular Add
\* inserts a row whose object was put before and that nobody can yet delete.
LEMMA UploadFiles ==
  ASSUME IInv, NEW f \in File, UploadStep(f)
  PROVE  IInv'
<1> USE DEF IInv, TypeOK, Goto, Request
<1>0. f \in Request /\ f \notin Remover
  BY ConstantsAssumption
<1>1. CASE Put(f)
  <2>1. TypeOK' /\ RowsHaveObject'
    BY <1>0, <1>1 DEF Put, RowsHaveObject
  <2>2. UploadedOnce' /\ ObjectWaits' /\ VictimHasNoRow'
    BY <1>0, <1>1, ConstantsAssumption
    DEF Put, UploadedOnce, ObjectWaits, VictimHasNoRow
  <2> QED  BY <2>1, <2>2
<1>2. CASE PutFails(f)
  <2>1. TypeOK' /\ RowsHaveObject'
    BY <1>0, <1>2 DEF PutFails, RowsHaveObject
  <2>2. UploadedOnce' /\ ObjectWaits' /\ VictimHasNoRow'
    BY <1>0, <1>2, ConstantsAssumption
    DEF PutFails, UploadedOnce, ObjectWaits, VictimHasNoRow
  <2> QED  BY <2>1, <2>2
<1>3. CASE Add(f)
  <2>1. f \in object /\ f \notin outbox
    BY <1>3 DEF Add, ObjectWaits, UploadedOnce
  <2>2. TypeOK' /\ RowsHaveObject'
    BY <1>0, <1>3, <2>1 DEF Add, Added, RowsHaveObject
  <2>3. UploadedOnce' /\ ObjectWaits'
    BY <1>0, <1>3, ConstantsAssumption DEF Add, Added, UploadedOnce, ObjectWaits
  <2>4. VictimHasNoRow'
    BY <1>0, <1>3, <2>1, ConstantsAssumption DEF Add, Added, VictimHasNoRow
  <2> QED  BY <2>2, <2>3, <2>4
<1>4. CASE AddFails(f)
  <2>1. f \in object /\ f \notin outbox
    BY <1>4 DEF AddFails, ObjectWaits, UploadedOnce
  <2>2. TypeOK' /\ RowsHaveObject'
    BY <1>0, <1>4, <2>1 DEF AddFails, Added, RowsHaveObject
  <2>3. UploadedOnce' /\ ObjectWaits'
    BY <1>0, <1>4, ConstantsAssumption DEF AddFails, Added, UploadedOnce, ObjectWaits
  <2>4. VictimHasNoRow'
    BY <1>0, <1>4, <2>1, ConstantsAssumption DEF AddFails, Added, VictimHasNoRow
  <2> QED  BY <2>2, <2>3, <2>4
<1> QED  BY <1>1, <1>2, <1>3, <1>4 DEF UploadStep

\* Delete takes the row before the object goes, and Purge removes an object
\* whose row is gone for good.
LEMMA RemoveFiles ==
  ASSUME IInv, NEW r \in Remover, Delete(r) \/ Purge(r)
  PROVE  IInv'
<1> USE DEF IInv, TypeOK, Goto, Request
<1>0. r \in Request /\ r \notin File
  BY ConstantsAssumption
<1>1. CASE Delete(r)
  <2>1. PICK p \in Photo \cap outbox :
          IF p \in row
          THEN /\ row' = row \ {p}
               /\ victim' = [victim EXCEPT ![r] = p]
               /\ Goto(r, "purge")
               /\ UNCHANGED <<object, outbox>>
          ELSE /\ Goto(r, "failed")
               /\ UNCHANGED <<object, row, outbox, victim>>
    BY <1>1 DEF Delete
  <2>2. TypeOK' /\ RowsHaveObject'
    BY <1>0, <2>1 DEF RowsHaveObject
  <2>3. UploadedOnce' /\ ObjectWaits'
    BY <1>0, <2>1 DEF UploadedOnce, ObjectWaits
  <2>4. VictimHasNoRow'
    BY <1>0, <2>1 DEF VictimHasNoRow
  <2> QED  BY <2>2, <2>3, <2>4
<1>2. CASE Purge(r)
  <2>1. victim[r] \in outbox \ row
    BY <1>2 DEF Purge, VictimHasNoRow
  <2>2. TypeOK' /\ RowsHaveObject'
    BY <1>0, <1>2, <2>1 DEF Purge, RowsHaveObject
  <2>3. UploadedOnce' /\ VictimHasNoRow'
    BY <1>0, <1>2 DEF Purge, UploadedOnce, VictimHasNoRow
  <2>4. ObjectWaits'
    BY <1>0, <1>2, <2>1 DEF Purge, ObjectWaits, UploadedOnce
  <2> QED  BY <2>2, <2>3, <2>4
<1> QED  BY <1>1, <1>2

\* A request that stops half-way leaves everything it did.
LEMMA CancelFiles ==
  ASSUME IInv, NEW r \in Request, Cancel(r)
  PROVE  IInv'
<1> USE DEF IInv, TypeOK, Goto, Request, Cancel
<1>1. TypeOK' /\ RowsHaveObject'
  BY DEF RowsHaveObject
<1>2. UploadedOnce' /\ ObjectWaits' /\ VictimHasNoRow'
  BY DEF UploadedOnce, ObjectWaits, VictimHasNoRow, File
<1> QED  BY <1>1, <1>2

\* Every step of the handlers preserves the invariant.
LEMMA FilesStep == IInv /\ [Next]_vars => IInv'
<1> SUFFICES ASSUME IInv, [Next]_vars  PROVE IInv'
  OBVIOUS
<1>1. CASE \E f \in File : UploadStep(f)
  BY <1>1, UploadFiles
<1>2. CASE \E r \in Remover : Delete(r) \/ Purge(r)
  BY <1>2, RemoveFiles
<1>3. CASE \E r \in Request : Cancel(r)
  BY <1>3, CancelFiles
<1>4. CASE UNCHANGED vars
  BY <1>4
  DEF vars, IInv, TypeOK, UploadedOnce, ObjectWaits, VictimHasNoRow, RowsHaveObject
<1> QED  BY <1>1, <1>2, <1>3, <1>4 DEF Next

\* The invariant holds in every reachable state.
THEOREM FilesInvariant == Spec => []IInv
BY InitFiles, FilesStep, PTL DEF Spec

\* A photo or document in the database always has its object, wherever an
\* upload or a delete stopped and whatever error it met.
THEOREM NoDanglingFile == Spec => []RowsHaveObject
<1>1. IInv => RowsHaveObject
  BY DEF IInv
<1> QED  BY <1>1, FilesInvariant, PTL

-----------------------------------------------------------------------------
(* The files tab over these handlers.                                      *)

\* Each upload belongs to one form.
LEMMA FormFacts ==
  /\ \A f \in File : FormOf(f) \in Form /\ f \in Uploads(FormOf(f))
  /\ \A k \in Form : \A f \in Uploads(k) :
       f \in File /\ f \in Request /\ f \notin Remover /\ FormOf(f) = k
  /\ File \subseteq Request /\ Remover \subseteq Request /\ None \notin File
BY ConstantsAssumption, TabAssumption DEF FormOf, Form, Uploads, File, Request

\* Every step of the tab is a step of the handlers or leaves them alone.
LEMMA TabStep == [TabNext]_<<vars, tabvars>> => [Next]_vars
BY DEF TabNext, Server, DeleteTarget, Next, Choose, Submit, Retry, ServeList, ListArrives,
       ListFails, ReadFails, Mutate, Uploaded, UploadFails, Remove, Removed, RemoveFails

\* The files tab uses the handlers of module Files as they are: what is proved
\* of Files holds under the tab.
THEOREM TabUsesFiles == TabSpec => Spec
<1>1. TabInit => Init
  BY DEF TabInit
<1> QED  BY <1>1, TabStep, PTL DEF TabSpec, Spec

\* Fetching a list again changes nothing of it that is shown, and not the other.
LEMMA RefetchedList ==
  ASSUME TabTypeOK, NEW k \in Form
  PROVE  /\ Refetched(k) \in [Form -> [shown : SUBSET File,
                                     fetch : {"none", "sent", "read", "failed"},
                                     got : SUBSET File]]
         /\ Refetched(k)[k].fetch = "sent" /\ Refetched(k)[k].shown = list[k].shown
         /\ \A j \in Form : j # k => Refetched(k)[j] = list[j]
BY DEF Refetched, TabTypeOK

\* The steps of the tab keep its types.
LEMMA TabTypes ==
  ASSUME TabTypeOK, IInv, ListsAgree, [TabNext]_<<vars, tabvars>>
  PROVE  TabTypeOK'
<1> USE FormFacts DEF TabTypeOK
<1>1. CASE Server \/ UNCHANGED <<vars, tabvars>>
  BY <1>1 DEF Server, tabvars
<1>2. ASSUME NEW k \in Form, Choose(k)  PROVE TabTypeOK'
  <2>1. PICK x \in Local \cup {None} :
          /\ chosen' = [chosen EXCEPT ![k] = x]
          /\ parted' = parted \cup
               {f \in Uploads(k) : client[f] \notin {"none", "ok"} /\ of[f] # x}
    BY <1>2 DEF Choose
  <2> QED  BY <1>2, <2>1 DEF Choose
<1>3. ASSUME NEW k \in Form, Submit(k)  PROVE TabTypeOK'
  <2>1. PICK f \in Uploads(k) :
       /\ client' = [client EXCEPT ![f] = "reading"]
       /\ of' = [of EXCEPT ![f] = chosen[k]]
       /\ parted' = parted \cup (IF \E g \in UnderWay(k) : of[g] # chosen[k] THEN {f} ELSE {})
                          \cup {g \in UnderWay(k) : of[g] # chosen[k]}
    BY <1>3 DEF Submit
  <2>2. UnderWay(k) \subseteq File
    BY DEF UnderWay
  <2>3. parted' \subseteq File
    BY <2>1, <2>2
  <2> QED  BY <1>3, <2>1, <2>3 DEF Submit
<1>4. ASSUME NEW k \in Form, Retry(k) \/ ServeList(k) \/ ListArrives(k) \/ ListFails(k)
      PROVE TabTypeOK'
  <2>1. row \cap Uploads(k) \subseteq File
    OBVIOUS
  <2>2. list' \in [Form -> [shown : SUBSET File, fetch : {"none", "sent", "read", "failed"},
                        got : SUBSET File]]
    BY <1>4, <2>1 DEF Retry, ServeList, ListArrives, ListFails, Refetched
  <2> QED  BY <1>4, <2>2 DEF Retry, ServeList, ListArrives, ListFails
<1>5. ASSUME NEW f \in File, ReadFails(f) \/ Mutate(f) \/ UploadFails(f)
      PROVE TabTypeOK'
  BY <1>5 DEF ReadFails, Mutate, UploadFails
<1>6. ASSUME NEW f \in File, Uploaded(f)
      PROVE TabTypeOK'
  <2>1. chosen' \in [Form -> Local \cup {None}] /\ client' \in
          [Request -> {"none", "reading", "pending", "failed", "unread", "ok"}]
    BY <1>6 DEF Uploaded
  <2>2. list' \in [Form -> [shown : SUBSET File, fetch : {"none", "sent", "read", "failed"},
                            got : SUBSET File]]
    BY <1>6, RefetchedList DEF Uploaded
  <2>3. UNCHANGED <<of, target>> /\ parted' \subseteq File
    BY <1>6 DEF Uploaded
  <2> QED  BY <2>1, <2>2, <2>3
<1>7. ASSUME NEW r \in Remover, Remove(r)  PROVE TabTypeOK'
  <2>1. PICK p \in list["photo"].shown : target' = [target EXCEPT ![r] = p]
    BY <1>7 DEF Remove
  <2>2. p \in Photo
    BY DEF ListsAgree, Form, Uploads
  <2> QED  BY <1>7, <2>1, <2>2 DEF Remove
<1>8. ASSUME NEW r \in Remover, Removed(r) \/ RemoveFails(r)  PROVE TabTypeOK'
  BY <1>8 DEF Removed, RemoveFails, Refetched, Form
<1> QED  BY <1>1, <1>2, <1>3, <1>4, <1>5, <1>6, <1>7, <1>8 DEF TabNext

\* At the start the tab knows nothing and its forms are empty.
LEMMA InitTab == TabInit => TabInv
<1> SUFFICES ASSUME TabInit  PROVE TabInv
  OBVIOUS
<1>1. IInv
  BY InitFiles DEF TabInit
<1>2. TabTypeOK
  BY DEF TabInit, TabTypeOK
<1>3. \A r \in Request : client[r] = "none" /\ pc[r] = "idle"
  BY DEF TabInit, Init
<1>4. FormHolds /\ SubmittedHasFile
  BY <1>3, FormFacts DEF FormHolds, SubmittedHasFile, Waiting
<1>5. ClearsItsOwn
  BY <1>3, FormFacts DEF ClearsItsOwn, UnderWay
<1>6. VictimsGone /\ ToldTheTruth
  BY <1>3, FormFacts DEF TabInit, Init, VictimsGone, ToldTheTruth
<1>7. ListsAgree
  BY <1>3, FormFacts DEF TabInit, ListsAgree, Agrees
<1> QED  BY <1>1, <1>2, <1>4, <1>5, <1>6, <1>7 DEF TabInv

\* A statement of the server takes a row for good, and only for the request
\* that names it as its victim.
LEMMA ServerTold ==
  ASSUME IInv, TabTypeOK, VictimsGone, ToldTheTruth, Server
  PROVE  /\ VictimsGone' /\ ToldTheTruth'
         /\ \A r \in Remover : victim[r] # None => victim'[r] = victim[r]
<1> DEFINE Goal == /\ VictimsGone' /\ ToldTheTruth'
                   /\ \A r \in Remover : victim[r] # None => victim'[r] = victim[r]
<1> USE FormFacts, ConstantsAssumption
    DEF IInv, TypeOK, TabTypeOK, Goto
<1>0. UNCHANGED <<client, target>>
  BY DEF Server, tabvars
<1>1. ASSUME NEW f \in File, Sent(f), UploadStep(f)  PROVE Goal
  <2>1. UNCHANGED victim /\ \A r \in Request : r # f => pc'[r] = pc[r]
    BY <1>1 DEF UploadStep, Put, PutFails, Add, AddFails
  <2>2. client[f] # "ok"
    BY <1>1 DEF Sent
  <2>3. \A r \in Remover : victim[r] # None => victim[r] \in outbox' \ row'
    BY <1>1 DEF UploadStep, Put, PutFails, Add, AddFails, Added, VictimsGone, UploadedOnce
  <2>4. row \subseteq row' /\ (pc'[f] = "done" => f \in row')
    BY <1>1 DEF UploadStep, Put, PutFails, Add, AddFails, Added
  <2>5. VictimsGone'
    BY <2>1, <2>3, <2>4 DEF VictimsGone
  <2>6. ToldTheTruth'
    BY <1>0, <2>1, <2>2 DEF ToldTheTruth
  <2> QED  BY <2>1, <2>5, <2>6
<1>2. ASSUME NEW r \in Remover, DeleteTarget(r)  PROVE Goal
  <2>1. PICK p \in Photo \cap outbox :
          IF p \in row
          THEN /\ row' = row \ {p}
               /\ victim' = [victim EXCEPT ![r] = p]
               /\ Goto(r, "purge")
               /\ UNCHANGED <<object, outbox>>
          ELSE /\ Goto(r, "failed")
               /\ UNCHANGED <<object, row, outbox, victim>>
    BY <1>2 DEF DeleteTarget, Delete
  <2>2. pc[r] = "idle" /\ victim[r] = None /\ client[r] # "ok"
    BY <1>2 DEF DeleteTarget, Delete, VictimsGone, ToldTheTruth
  <2>3. \A s \in Request : s # r => pc'[s] = pc[s]
    BY <2>1
  <2>4. \A s \in Remover : s # r => victim'[s] = victim[s]
    BY <2>1
  <2>5. VictimsGone'
    <3>1. \A f \in File : pc'[f] = "done" => f \in row' \/ \E s \in Remover : victim'[s] = f
      BY <2>1, <2>2, <2>3, <2>4 DEF VictimsGone
    <3>2. \A s \in Remover : victim'[s] # None => victim'[s] \in outbox' \ row'
      BY <2>1, <2>2 DEF VictimsGone
    <3>3. \A s \in Remover : pc'[s] = "idle" => victim'[s] = None
      BY <2>1, <2>2 DEF VictimsGone
    <3> QED  BY <3>1, <3>2, <3>3 DEF VictimsGone
  <2>6. ToldTheTruth'
    <3>1. target[r] # None /\ pc'[r] \in {"purge", "done"} => victim'[r] = target[r]
      BY <1>2, <2>1, <2>2 DEF DeleteTarget
    <3> QED  BY <1>0, <2>2, <2>3, <2>4, <3>1 DEF ToldTheTruth
  <2> QED  BY <2>2, <2>4, <2>5, <2>6
<1>3. ASSUME NEW r \in Remover, Purge(r)  PROVE Goal
  <2>1. /\ pc[r] = "purge" /\ pc'[r] = "done" /\ UNCHANGED <<row, outbox, victim>>
        /\ \A s \in Request : s # r => pc'[s] = pc[s]
    BY <1>3 DEF Purge
  <2> QED  BY <1>0, <2>1 DEF VictimsGone, ToldTheTruth
<1>4. ASSUME NEW r \in Request, Cancel(r)  PROVE Goal
  <2>1. /\ pc[r] \in {"put", "purge"} /\ pc'[r] = "failed" /\ UNCHANGED <<row, outbox, victim>>
        /\ \A s \in Request : s # r => pc'[s] = pc[s]
    BY <1>4 DEF Cancel
  <2> QED  BY <1>0, <2>1 DEF VictimsGone, ToldTheTruth
<1> QED  BY <1>1, <1>2, <1>3, <1>4 DEF Server

\* The page learns that a request succeeded when the server has done it, and
\* deletes what it names.
LEMMA PageTold ==
  ASSUME TabTypeOK, VictimsGone, ToldTheTruth, [TabNext]_<<vars, tabvars>>, ~Server, ListsAgree
  PROVE  VictimsGone' /\ ToldTheTruth'
<1> USE FormFacts DEF TabTypeOK, VictimsGone, ToldTheTruth
<1>0. UNCHANGED vars
  BY DEF TabNext, Choose, Submit, Retry, ServeList, ListArrives,
       ListFails, ReadFails, Mutate, Uploaded, UploadFails, Remove, Removed, RemoveFails, vars
<1>1. VictimsGone'
  BY <1>0 DEF vars
<1>2. CASE UNCHANGED tabvars
  BY <1>0, <1>2 DEF vars, tabvars
<1>3. ASSUME NEW k \in Form, Choose(k) \/ Retry(k) \/ ServeList(k) \/ ListArrives(k) \/ ListFails(k)
      PROVE ToldTheTruth'
  BY <1>0, <1>3 DEF Choose, Retry, ServeList, ListArrives, ListFails, vars
<1>4. ASSUME NEW k \in Form, Submit(k)  PROVE ToldTheTruth'
  <2>1. PICK f \in Uploads(k) : client' = [client EXCEPT ![f] = "reading"]
    BY <1>4 DEF Submit
  <2> QED  BY <1>0, <1>4, <2>1 DEF Submit, vars
<1>5. ASSUME NEW f \in File, ReadFails(f) \/ Mutate(f) \/ Uploaded(f) \/ UploadFails(f)
      PROVE ToldTheTruth'
  <2>1. UNCHANGED target /\ \A r \in Remover : client'[r] = client[r]
    BY <1>5, ConstantsAssumption DEF ReadFails, Mutate, Uploaded, UploadFails
  <2>2. \A r \in Request : client'[r] = "ok" => client[r] = "ok" \/ pc[r] = "done"
    BY <1>5 DEF ReadFails, Mutate, Uploaded, UploadFails
  <2> QED  BY <1>0, <2>1, <2>2 DEF vars
<1>6. ASSUME NEW r \in Remover, Remove(r)  PROVE ToldTheTruth'
  <2>1. PICK p \in list["photo"].shown : target' = [target EXCEPT ![r] = p]
    BY <1>6 DEF Remove
  <2>2. p # None
    BY DEF ListsAgree, Form, Uploads
  <2>3. client' = [client EXCEPT ![r] = "pending"] /\ pc[r] = "idle"
    BY <1>6 DEF Remove
  <2> QED  BY <1>0, <2>1, <2>2, <2>3 DEF vars
<1>7. ASSUME NEW r \in Remover, Removed(r) \/ RemoveFails(r)  PROVE ToldTheTruth'
  BY <1>0, <1>7 DEF Removed, RemoveFails, vars
<1> QED  BY <1>1, <1>2, <1>3, <1>4, <1>5, <1>6, <1>7 DEF TabNext

\* A list that has been asked for since the last answer, or that the server
\* read after it, agrees with every answer; nothing else is ever shown.
LEMMA ListsStayAgreed ==
  ASSUME IInv, TabTypeOK, VictimsGone, ToldTheTruth, ListsAgree, ~Server,
         [TabNext]_<<vars, tabvars>>
  PROVE  ListsAgree'
<1> USE FormFacts DEF TabTypeOK
<1>0. UNCHANGED vars
  BY DEF TabNext, Choose, Submit, Retry, ServeList, ListArrives,
       ListFails, ReadFails, Mutate, Uploaded, UploadFails, Remove, Removed, RemoveFails, vars
<1> DEFINE Holds(k) == /\ list[k].shown \subseteq Uploads(k)
                       /\ list[k].fetch = "none" => Agrees(k, list[k].shown)
                       /\ list[k].fetch = "read" => Agrees(k, list[k].got)
<1>1. ASSUME \A r \in Request : client'[r] = "ok" => client[r] = "ok",
             \A r \in Remover : client[r] = "ok" => target'[r] = target[r],
             NEW k \in Form, list'[k] = list[k]
      PROVE  Holds(k)'
  BY <1>0, <1>1 DEF ListsAgree, Agrees, vars
<1>2. CASE UNCHANGED tabvars
  BY <1>1, <1>2 DEF tabvars, ListsAgree
<1>3. ASSUME NEW k \in Form, Choose(k)  PROVE ListsAgree'
  BY <1>1, <1>3 DEF Choose, ListsAgree
<1>4. ASSUME NEW k \in Form, Submit(k)  PROVE ListsAgree'
  <2>1. PICK f \in Uploads(k) : client' = [client EXCEPT ![f] = "reading"]
    BY <1>4 DEF Submit
  <2>2. \A r \in Request : client'[r] = "ok" => client[r] = "ok"
    BY <2>1
  <2>3. UNCHANGED <<target, list>>
    BY <1>4 DEF Submit
  <2> QED  BY <1>1, <2>2, <2>3 DEF ListsAgree
<1>5. ASSUME NEW f \in File, ReadFails(f) \/ Mutate(f) \/ UploadFails(f)  PROVE ListsAgree'
  <2>1. \A r \in Request : client'[r] = "ok" => client[r] = "ok"
    BY <1>5 DEF ReadFails, Mutate, UploadFails
  <2>2. UNCHANGED <<target, list>>
    BY <1>5 DEF ReadFails, Mutate, UploadFails
  <2> QED  BY <1>1, <2>1, <2>2 DEF ListsAgree
<1>6. ASSUME NEW r \in Remover, Remove(r) \/ RemoveFails(r)  PROVE ListsAgree'
  <2>1. client[r] # "ok" /\ UNCHANGED list
    BY <1>6 DEF Remove, RemoveFails
  <2>2. \A s \in Request : client'[s] = "ok" => client[s] = "ok"
    BY <1>6 DEF Remove, RemoveFails
  <2>3. \A s \in Remover : s # r => target'[s] = target[s]
    BY <1>6 DEF Remove, RemoveFails
  <2> QED  BY <1>1, <2>1, <2>2, <2>3 DEF ListsAgree
<1>7. ASSUME NEW f \in File, Uploaded(f)  PROVE ListsAgree'
  <2>1. /\ list' = Refetched(FormOf(f)) /\ UNCHANGED target
        /\ \A r \in Request : r # f => client'[r] = client[r]
    BY <1>7 DEF Uploaded
  <2>2. Holds(FormOf(f))'
    BY <2>1, RefetchedList DEF ListsAgree
  <2>3. ASSUME NEW k \in Form, k # FormOf(f)  PROVE Holds(k)'
    <3>1. list'[k] = list[k]
      BY <2>1, <2>3, RefetchedList
    <3>2. f \notin Uploads(k) /\ f \notin Remover
      BY <2>3
    <3> QED  BY <1>0, <2>1, <3>1, <3>2 DEF ListsAgree, Agrees, vars
  <2> QED  BY <2>2, <2>3 DEF ListsAgree
<1>8. ASSUME NEW r \in Remover, Removed(r)  PROVE ListsAgree'
  <2>1. /\ list' = Refetched("photo") /\ UNCHANGED target
        /\ \A s \in Request : s # r => client'[s] = client[s]
    BY <1>8 DEF Removed
  <2>2. Holds("photo")'
    BY <2>1, RefetchedList DEF ListsAgree, Form
  <2>3. list'["document"] = list["document"]
    BY <2>1, RefetchedList DEF Form
  <2>4. client'[r] = "ok" => target'[r] \notin Doc
    BY <2>1, ConstantsAssumption, TabAssumption DEF File
  <2>5. Holds("document")'
    BY <1>0, <2>1, <2>3, <2>4, "document" \in Form DEF ListsAgree, Agrees, Uploads, vars, Form
  <2> QED  BY <2>2, <2>5 DEF ListsAgree, Form
<1>9. ASSUME NEW k \in Form, Retry(k) \/ ServeList(k) \/ ListArrives(k) \/ ListFails(k)
      PROVE  ListsAgree'
  <2>1. UNCHANGED <<client, target>>
    BY <1>9 DEF Retry, ServeList, ListArrives, ListFails
  <2>2. \A j \in Form : j # k => list'[j] = list[j]
    BY <1>9 DEF Retry, ServeList, ListArrives, ListFails, Refetched
  <2>3. \A j \in Form : j # k => Holds(j)'
    BY <1>1, <2>1, <2>2
  <2>4. CASE Retry(k) \/ ListFails(k)
    <3>1. list'[k].fetch \in {"sent", "failed"} /\ list'[k].shown = list[k].shown
      BY <2>4 DEF Retry, ListFails, Refetched
    <3> QED  BY <2>3, <3>1 DEF ListsAgree
  <2>5. CASE ServeList(k)
    <3>1. /\ list'[k].fetch = "read" /\ list'[k].shown = list[k].shown
          /\ list'[k].got = row \cap Uploads(k)
      BY <2>5 DEF ServeList
    <3>2. \A r \in Remover : client[r] = "ok" => target[r] \notin row
      BY DEF ToldTheTruth, VictimsGone
    <3>3. \A f \in Uploads(k) :
            client[f] = "ok" /\ (\A r \in Remover : victim[r] # f) => f \in row
      BY DEF ToldTheTruth, VictimsGone
    <3> QED  BY <1>0, <2>1, <2>3, <3>1, <3>2, <3>3 DEF ListsAgree, Agrees, vars
  <2>6. CASE ListArrives(k)
    <3>1. list'[k].fetch = "none" /\ list'[k].shown = list[k].got /\ list[k].fetch = "read"
      BY <2>6 DEF ListArrives
    <3> QED  BY <1>0, <2>1, <2>3, <3>1 DEF ListsAgree, Agrees, vars
  <2> QED  BY <1>9, <2>4, <2>5, <2>6
<1> QED  BY <1>2, <1>3, <1>4, <1>5, <1>6, <1>7, <1>8, <1>9 DEF TabNext

\* What the server does behind the page's back leaves the lists in agreement.
LEMMA ListsUnderServer ==
  ASSUME IInv, TabTypeOK, VictimsGone, ToldTheTruth, ListsAgree, Server
  PROVE  ListsAgree'
<1>1. \A r \in Remover : victim[r] # None => victim'[r] = victim[r]
  BY ServerTold
<1>2. UNCHANGED <<client, target, list>>
  BY DEF Server, tabvars
<1>3. \A f \in File : (\A r \in Remover : victim'[r] # f) => \A r \in Remover : victim[r] # f
  BY <1>1, ConstantsAssumption
<1> QED  BY <1>2, <1>3, FormFacts DEF ListsAgree, Agrees

\* A choice parts what it replaces, a submission what it would be cleared with,
\* and an upload that succeeds clears nothing but its own file.
LEMMA FormsHold ==
  ASSUME TabTypeOK, FormHolds, ClearsItsOwn, SubmittedHasFile, [TabNext]_<<vars, tabvars>>
  PROVE  FormHolds' /\ ClearsItsOwn' /\ SubmittedHasFile'
<1> DEFINE Goal == FormHolds' /\ ClearsItsOwn' /\ SubmittedHasFile'
<1> USE FormFacts, ConstantsAssumption
    DEF TabTypeOK, FormHolds, ClearsItsOwn, SubmittedHasFile, UnderWay
<1>1. CASE UNCHANGED <<chosen, client, of, parted>>
  BY <1>1 DEF Waiting
<1>2. ASSUME NEW k \in Form, Choose(k)  PROVE Goal
  <2>1. PICK x \in Local \cup {None} :
          /\ chosen' = [chosen EXCEPT ![k] = x]
          /\ parted' = parted \cup
               {f \in Uploads(k) : client[f] \notin {"none", "ok"} /\ of[f] # x}
    BY <1>2 DEF Choose
  <2>2. UNCHANGED <<client, of>>
    BY <1>2 DEF Choose
  <2>3. ASSUME NEW f \in File \ parted', Waiting(f), FormOf(f) = k  PROVE chosen'[k] = of[f]
    BY <2>1, <2>3 DEF Waiting
  <2>4. \A j \in Form : j # k => chosen'[j] = chosen[j]
    BY <2>1
  <2>5. FormHolds'
    BY <2>1, <2>2, <2>3, <2>4 DEF Waiting
  <2>6. ClearsItsOwn' /\ SubmittedHasFile'
    BY <2>1, <2>2 DEF Waiting
  <2> QED  BY <2>5, <2>6
<1>3. ASSUME NEW k \in Form, Submit(k)  PROVE Goal
  <2>1. PICK f \in Uploads(k) :
       /\ client[f] = "none"
       /\ client' = [client EXCEPT ![f] = "reading"]
       /\ of' = [of EXCEPT ![f] = chosen[k]]
       /\ parted' = parted \cup (IF \E g \in UnderWay(k) : of[g] # chosen[k] THEN {f} ELSE {})
                          \cup {g \in UnderWay(k) : of[g] # chosen[k]}
    BY <1>3 DEF Submit
  <2>2. chosen[k] # None /\ UNCHANGED chosen
    BY <1>3 DEF Submit
  <2>3. /\ client'[f] = "reading" /\ of'[f] = chosen[k] /\ parted \subseteq parted'
        /\ \A g \in File : g # f => client'[g] = client[g] /\ of'[g] = of[g]
    BY <2>1
  <2>4. FormHolds'
    BY <2>1, <2>2, <2>3 DEF Waiting
  <2>5. SubmittedHasFile'
    BY <2>2, <2>3
  <2>6. ASSUME NEW j \in Form, NEW g \in UnderWay(j)', NEW h \in Uploads(j),
               Waiting(h)', of'[g] # of'[h]
        PROVE  h \in parted'
    <3>1. CASE g # f /\ h # f
      BY <2>3, <2>6, <3>1 DEF Waiting
    <3>2. CASE h = f
      <4>1. g # f /\ g \in UnderWay(k) /\ of[g] # chosen[k]
        BY <2>3, <2>6, <3>2
      <4> QED  BY <2>1, <3>2, <4>1
    <3>3. CASE g = f /\ h # f
      <4>1. j = k /\ Waiting(h) /\ of[h] # chosen[k]
        BY <2>3, <2>6, <3>3 DEF Waiting
      <4>2. h \in parted \/ chosen[k] = None \/ chosen[k] = of[h]
        BY <4>1
      <4> QED  BY <2>2, <2>3, <4>1, <4>2
    <3> QED  BY <3>1, <3>2, <3>3
  <2>7. ClearsItsOwn'
    BY <2>6
  <2> QED  BY <2>4, <2>5, <2>7
<1>4. ASSUME NEW f \in File, ReadFails(f) \/ Mutate(f) \/ UploadFails(f)  PROVE Goal
  <2>1. UNCHANGED <<chosen, of, parted>>
    BY <1>4 DEF ReadFails, Mutate, UploadFails
  <2>2. \A g \in File :
          /\ (Waiting(g)' <=> Waiting(g)) /\ (client'[g] = "ok" <=> client[g] = "ok")
          /\ client'[g] \in {"reading", "pending"} => client[g] \in {"reading", "pending"}
          /\ client'[g] # "none" => client[g] # "none"
    BY <1>4 DEF ReadFails, Mutate, UploadFails, Waiting
  <2>3. FormHolds'
    BY <2>1, <2>2
  <2>4. ClearsItsOwn' /\ SubmittedHasFile'
    BY <2>1, <2>2
  <2> QED  BY <2>3, <2>4
<1>5. ASSUME NEW f \in File, Uploaded(f)  PROVE Goal
  <2>1. /\ client[f] = "pending" /\ client'[f] = "ok" /\ chosen'[FormOf(f)] = None
        /\ \A g \in File : g # f => client'[g] = client[g]
        /\ \A k \in Form : k # FormOf(f) => chosen'[k] = chosen[k]
        /\ parted' = parted \ {f} /\ UNCHANGED of
    BY <1>5 DEF Uploaded
  <2>2. FormHolds'
    <3>1. ASSUME NEW g \in File \ parted', Waiting(g)', FormOf(g) = FormOf(f)
          PROVE  of[g] = of[f]
      BY <2>1, <3>1 DEF Waiting
    <3> QED  BY <2>1, <3>1 DEF Waiting
  <2>3. ClearsItsOwn' /\ SubmittedHasFile'
    BY <2>1 DEF Waiting
  <2> QED  BY <2>2, <2>3
<1>6. ASSUME NEW r \in Remover, Remove(r) \/ Removed(r) \/ RemoveFails(r)  PROVE Goal
  <2>1. UNCHANGED <<chosen, of, parted>> /\ \A f \in File : client'[f] = client[f]
    BY <1>6 DEF Remove, Removed, RemoveFails
  <2> QED  BY <2>1 DEF Waiting
<1>7. ASSUME NEW k \in Form, Retry(k) \/ ServeList(k) \/ ListArrives(k) \/ ListFails(k)
      PROVE  Goal
  BY <1>1, <1>7 DEF Retry, ServeList, ListArrives, ListFails
<1>8. CASE Server \/ UNCHANGED <<vars, tabvars>>
  BY <1>1, <1>8 DEF Server, tabvars
<1> QED  BY <1>2, <1>3, <1>4, <1>5, <1>6, <1>7, <1>8 DEF TabNext

\* The invariant of the tab holds in every reachable state.
THEOREM TabInvariant == TabSpec => []TabInv
<1>1. ASSUME TabInv, [TabNext]_<<vars, tabvars>>  PROVE TabInv'
  <2>1. IInv'
    BY <1>1, TabStep, FilesStep DEF TabInv
  <2>2. TabTypeOK'
    BY <1>1, TabTypes DEF TabInv
  <2>3. VictimsGone' /\ ToldTheTruth' /\ ListsAgree'
    BY <1>1, ServerTold, PageTold, ListsUnderServer, ListsStayAgreed DEF TabInv
  <2>4. FormHolds' /\ ClearsItsOwn' /\ SubmittedHasFile'
    BY <1>1, FormsHold DEF TabInv
  <2> QED  BY <2>1, <2>2, <2>3, <2>4 DEF TabInv
<1> QED  BY <1>1, InitTab, PTL DEF TabSpec

\* A submitted file is not lost: when its upload has failed it is still in the
\* form, or another upload has stored it, unless the user parted it from the form.
THEOREM FailedFileKept == TabSpec => []FailedIsKept
<1>1. TabInv => FailedIsKept
  BY DEF TabInv, FormHolds, FailedIsKept, Waiting
<1> QED  BY <1>1, TabInvariant, PTL

\* A quiet list shows every upload the page was told of and no photo it was
\* told is deleted.
THEOREM AnswersShow == TabSpec => []ToldIsShown
<1>1. TabInv => ToldIsShown
  BY DEF TabInv, ListsAgree, Agrees, ToldIsShown
<1> QED  BY <1>1, TabInvariant, PTL
=============================================================================
