------------------------------- MODULE RowSink -------------------------------
(***************************************************************************)
(* What FileFormat.WriteInsert promises to tryToWriteTableData: the rows   *)
(* that are left are appended to one file in their order, by any number at *)
(* a time, and the call returns once.  It returns without error when all   *)
(* rows are in the file or, for files of limited size, when some are.      *)
(***************************************************************************)
EXTENDS Naturals, Sequences

CONSTANT
    Rows      \* rows the iterator still has

VARIABLES
    limited,  \* files have a size limit
    content,  \* rows in the file
    outcome   \* "none" so far, "ok" or "err"

Init == limited \in BOOLEAN /\ content = <<>> /\ outcome = "none"

\* rows are appended up to row n
Write ==
    /\ outcome = "none"
    /\ \E n \in Len(content) + 1 .. Rows :
         content' = [i \in 1 .. n |-> IF i <= Len(content) THEN content[i] ELSE i]
    /\ UNCHANGED <<limited, outcome>>

Succeed ==
    /\ outcome = "none"
    /\ Len(content) = Rows \/ (limited /\ content # <<>>)
    /\ outcome' = "ok"
    /\ UNCHANGED <<limited, content>>

Fail ==
    /\ outcome = "none"
    /\ outcome' = "err"
    /\ UNCHANGED <<limited, content>>

Next == Write \/ Succeed \/ Fail

Spec == Init /\ [][Next]_<<limited, content, outcome>>
=============================================================================
