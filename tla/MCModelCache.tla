---------------------------- MODULE MCModelCache ----------------------------
(***************************************************************************)
(* Instances of ModelCache for TLC: what may become of the artifact file.  *)
(***************************************************************************)
EXTENDS ModelCache

(* A deployment replaces it: it can be read only when complete.            *)
Replaced == {"partial", "present"}

(* It is not there at first.                                               *)
Late == {"absent", "present"}
=============================================================================
