--------------------------- MODULE MCDigestPublish ---------------------------
(* Small instances of DigestPublish for TLC. *)
EXTENDS DigestPublish
=============================================================================
