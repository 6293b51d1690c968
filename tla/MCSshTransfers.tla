--------------------------- MODULE MCSshTransfers ----------------------------
(* Two jobs of any policy on one file.  Uploads and the editor write the      *)
(* remote file, downloads the local one: they meet only in the session, the   *)
(* permits and the store.                                                     *)
EXTENDS SshTransfers, TLC

CONSTANTS j1, j2

(* Two of the same side; there is one editor.                                 *)
SameFile == ([Jobs -> {"upload", "save"}] \cup [Jobs -> {"download"}])
              \ [Jobs -> {"save"}]

(* One of each side.                                                          *)
BothWays == {(j1 :> "upload" @@ j2 :> "download")}

Symmetry == Permutations(Jobs)
=============================================================================
