------------------------------ MODULE MC_Session ------------------------------
(* Small instances of SftpSession for TLC. *)
EXTENDS SftpSession

Upload(n, r) == [dir |-> "Upload", name |-> n, recursive |-> r]
Download(n, r) == [dir |-> "Download", name |-> n, recursive |-> r]

\* one file each way: uploads and downloads that share a file name
UpDown == {Upload("f", FALSE), Download("f", FALSE)}

\* the same, and directory trees, whose partials are not cleaned up
FilesAndTrees == UpDown \cup {Download("f", TRUE), Upload("f", TRUE)}
===============================================================================
