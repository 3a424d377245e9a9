------------------------- MODULE MCMetadataHandoff -------------------------
(* MetadataHandoff for a handler of the interceptor and a resolve request.    *)
EXTENDS MetadataHandoff
=============================================================================
