----------------------------- MODULE MCTransfer -----------------------------
(* Model values for Transfer: a file of two bytes, an empty one, one with a  *)
(* byte that is not UTF-8, one that holds its own end_file and a delimiter,  *)
(* and one the node does not have; a form of the first two, and three        *)
(* folders.                                                                  *)
EXTENDS Transfer, TLC

CONSTANTS f1, f2, f3, f4, f5, a, b, c, d, e, h, u

MCFile == {f1, f2, f3, f4, f5}
MCContent == (f1 :> <<a, b>>) @@ (f2 :> <<>>) @@ (f3 :> <<c>>)
             @@ (f4 :> <<e, d, h, a>>) @@ (f5 :> <<a>>)
MCRaw == {c}
MCMarks == (d :> Sym("delim1", None)) @@ (h :> Sym("delim2", None)) @@ (e :> Sym("end", f4))
MCFolders == {{f1, f2, f3}, {f4}, {f3, f5}}
MCUploader == {u}
MCFilesOf == (u :> <<f1, f2>>)
MCStored == {{f1, f2, f3, f4}}
MCCarriers == {"link", "move"}
=============================================================================
