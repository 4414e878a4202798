-------------------------------- MODULE Media --------------------------------
(***************************************************************************)
(* The media library: rows in PostgreSQL and the objects they name, on     *)
(* disk or in a bucket, written and deleted one after the other by         *)
(* httpapi/handlers_media.  Every upload has a key of its own.             *)
(***************************************************************************)
EXTENDS ServerProcess

CONSTANT Uploads

VARIABLES
  uploads,      \* of each upload: where its request stands
  rows,         \* uploads with a row in the table
  objects,      \* uploads with an object in the store
  dropping,     \* deleted rows whose object is about to be deleted
  unheard,      \* uploads whose row was inserted, but not as they were told
  failed        \* uploads that some failure kept from being cleaned up

mediaVars == <<uploads, rows, objects, dropping, unheard, failed>>

InitMedia ==
  /\ uploads = [o \in Uploads |-> "new"]
  /\ rows = {} /\ objects = {} /\ dropping = {}
  /\ unheard = {} /\ failed = {}

At(o, from, to) ==
  /\ uploads[o] = from
  /\ uploads' = [uploads EXCEPT ![o] = to]

\* The object is stored ...
Put(o) ==
  /\ Works
  /\ At(o, "new", "stored")
  /\ objects' = objects \cup {o}
  /\ UNCHANGED <<rows, dropping, unheard, failed>>

\* ... or not, and what was written of it stays.
PutFails(o) ==
  /\ Fails
  /\ At(o, "new", "over")
  /\ objects' \in {objects, objects \cup {o}}
  /\ failed' = failed \cup {o}
  /\ UNCHANGED <<rows, dropping, unheard>>

\* The row is inserted ...
InsertMedia(o) ==
  /\ Works
  /\ At(o, "stored", "over")
  /\ rows' = rows \cup {o}
  /\ UNCHANGED <<objects, dropping, unheard, failed>>

\* Variant: a failed INSERT leaves the object.
InsertFailsOnly(o) ==
  /\ Fails
  /\ At(o, "stored", "over")
  /\ UNCHANGED <<rows, objects, dropping, unheard, failed>>

\* ... or the INSERT fails, or its reply does.
InsertFails(o) ==
  /\ Fails
  /\ At(o, "stored", "undo")
  /\ \/ UNCHANGED <<rows, unheard>>
     \/ rows' = rows \cup {o} /\ unheard' = unheard \cup {o}
  /\ UNCHANGED <<objects, dropping, failed>>

\* The object goes: of an upload that failed, or of a row that was deleted.
\* A failure leaves it.
DeleteObject(o) ==
  /\ \/ At(o, "undo", "over") /\ UNCHANGED dropping
     \/ o \in dropping /\ dropping' = dropping \ {o} /\ UNCHANGED uploads
  /\ \/ Works /\ objects' = objects \ {o} /\ UNCHANGED failed
     \/ Fails /\ failed' = failed \cup {o} /\ UNCHANGED objects
  /\ UNCHANGED <<rows, unheard>>

\* Variant: a deletion starts with the object.
DropObjectFirst(o) ==
  /\ Works
  /\ o \in rows
  /\ objects' = objects \ {o}
  /\ UNCHANGED <<uploads, rows, dropping, unheard, failed>>

\* handleDeleteMedia: the row goes first and tells the key of the object.
DropRow(o) ==
  /\ o \in rows
  /\ rows' = rows \ {o}
  /\ \/ Works /\ dropping' = dropping \cup {o} /\ UNCHANGED failed
     \/ Fails /\ failed' = failed \cup {o} /\ UNCHANGED dropping
  /\ UNCHANGED <<uploads, objects, unheard>>

\* The server stops: the requests end where they are.
EndRequests ==
  LET cut == dropping \cup {o \in Uploads : uploads[o] \in {"stored", "undo"}}
  IN  /\ uploads' = [o \in Uploads |-> IF o \in cut THEN "over" ELSE uploads[o]]
      /\ dropping' = {}
      /\ failed' = failed \cup cut
      /\ UNCHANGED <<rows, objects, unheard>>

MediaStep == \E o \in Uploads :
  \/ Put(o) \/ PutFails(o)
  \/ InsertMedia(o) \/ InsertFails(o)
  \/ DropRow(o) \/ DeleteObject(o)

\* Property: every row has its object, so that no website shows a picture
\* that is gone, unless the upload never heard that its row was inserted: it
\* then deletes the object and leaves the row.
RowHasObject == rows \subseteq objects \cup unheard

\* Property: an object whose row never came, or is gone, is deleted by the
\* request that left it so, unless that very request fails at it or ends.
ObjectsAccounted ==
  \A o \in objects \ (rows \cup failed) :
    o \in dropping \/ uploads[o] \in {"stored", "undo"}
==============================================================================
