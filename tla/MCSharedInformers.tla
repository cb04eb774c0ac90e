--------------------------- MODULE MCSharedInformers ---------------------------
(* Two workers, and a status that changes there and back while a user changes   *)
(* the spec.                                                                    *)
EXTENDS SharedInformers
=============================================================================
