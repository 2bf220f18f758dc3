--------------------------- MODULE CatalogService ---------------------------
(***************************************************************************)
(* What catalogd promises the readers of its ClusterCatalogs: a reference  *)
(* appears in the status of a catalog only when the content of exactly     *)
(* that image is in the storage (or has been lost since). Catalogd         *)
(* implements this for catalogs pinned to a digest; CatalogClient relies   *)
(* on it.                                                                  *)
(***************************************************************************)

CONSTANTS
  Catalogs,  \* names of ClusterCatalogs
  Digests,   \* digests of catalog images
  None       \* no content, no reference

VARIABLES
  exists,    \* the ClusterCatalogs that exist
  content,   \* catalog -> the digest whose content the HTTP server serves
  advert     \* catalog -> status.resolvedSource.image.ref

serviceVars == <<exists, content, advert>>

Init ==
  /\ exists \in SUBSET Catalogs
  /\ content = [k \in Catalogs |-> None]
  /\ advert = [k \in Catalogs |-> None]

Create(k) ==
  /\ k \notin exists
  /\ exists' = exists \cup {k}
  /\ advert' = [advert EXCEPT ![k] = None]
  /\ UNCHANGED content

Delete(k) ==
  /\ k \in exists
  /\ exists' = exists \ {k}
  /\ advert' = [advert EXCEPT ![k] = None]
  /\ UNCHANGED content

PutContent(k, d) == content' = [content EXCEPT ![k] = d] /\ UNCHANGED <<exists, advert>>

DropContent(k) == content' = [content EXCEPT ![k] = None] /\ UNCHANGED <<exists, advert>>

Advertise(k, d) ==
  /\ k \in exists
  /\ content[k] \in {None, d}
  /\ advert' = [advert EXCEPT ![k] = d]
  /\ UNCHANGED <<exists, content>>

Retract(k) == advert' = [advert EXCEPT ![k] = None] /\ UNCHANGED <<exists, content>>

Next ==
  \E k \in Catalogs :
    \/ Create(k) \/ Delete(k) \/ DropContent(k) \/ Retract(k)
    \/ \E d \in Digests : PutContent(k, d) \/ Advertise(k, d)

Spec == Init /\ [][Next]_serviceVars
=============================================================================
