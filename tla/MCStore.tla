-------------------------------- MODULE MCStore --------------------------------
(* The registry with two threads and one session, which is enough for every pair of
   the evictor, a call that uses or lists, one that closes and one that opens.  The
   safety properties are proved for any number of both (SessionStoreProofs). *)
EXTENDS SessionStore
================================================================================
