---------------------------- MODULE MCFileTransfer ----------------------------
(* A clipboard group of a file and an empty file, and a single file.       *)
EXTENDS FileTransfer
MCFiles == [t \in {"group", "single"} |-> IF t = "group" THEN <<1, 2>> ELSE <<3>>]
MCChunks == <<2, 0, 1>>
===============================================================================
