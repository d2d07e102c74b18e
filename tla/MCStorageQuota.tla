--------------------------- MODULE MCStorageQuota ---------------------------
(***************************************************************************)
(* Threads, and files, are told apart by nothing but their names.          *)
(***************************************************************************)
EXTENDS StorageQuota, TLC

Interchangeable == Permutations(Writer) \union Permutations(File)
=============================================================================
