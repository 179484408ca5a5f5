--------------------------- MODULE MCGalleryUpload ---------------------------
(***************************************************************************)
(* GalleryUpload for TLC: two uploads from one member's device, and the    *)
(* administrator's device, which may delete what it lists.                 *)
(***************************************************************************)
EXTENDS GalleryUpload, TLC

CONSTANTS u1, u2, phone, office

OneUploader == [u \in Uploads |-> phone]
=============================================================================
