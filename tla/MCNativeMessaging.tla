------------------------- MODULE MCNativeMessaging -------------------------
(* Small instances of NativeMessaging for TLC. *)
EXTENDS NativeMessaging

CONSTANTS f1, f2, f3

\* f1 grows from one full chunk and a byte to more than a file may hold; f2
\* from nothing to exactly the two chunks a file may hold, then shrinks to one;
\* the address of f3 is too long to be asked for.
MCSize == [f \in Files |->
             [v \in 0..MaxEdits |->
                IF f = f1 THEN IF v = 0 THEN 3 ELSE 5
                          ELSE IF v = 0 THEN 0 ELSE IF v = 1 THEN 4 ELSE 2]]
=============================================================================
