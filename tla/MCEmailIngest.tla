----------------------------- MODULE MCEmailIngest -----------------------------
(* Small instances of EmailIngest for TLC. *)
EXTENDS EmailIngest

CONSTANTS f1, f2

TwoFolders == <<f1, f2>>

OneAndThree == [f \in {f1, f2} |-> IF f = f1 THEN 1 ELSE 3]

\* The third message of the second folder is listed and never handed out.
OneRefused == {[folder |-> f2, validity |-> 1, uid |-> 3]}
===============================================================================
