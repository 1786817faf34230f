----------------------------- MODULE MCFolders -----------------------------
(* The instances of FolderTree that TLC checks.  Every Folder set is 1..n, so
   that ids ascend; one client, because the code's checks only hold up then.  *)
EXTENDS FolderTree
=============================================================================
