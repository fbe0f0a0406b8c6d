----------------------------- MODULE MCPdfWriter -----------------------------
(***************************************************************************)
(* Documents of up to four objects besides the fixed ones, and revisions   *)
(* of files whose /Size is right, short or generous.                       *)
(***************************************************************************)
EXTENDS PdfWriter

File(objects, pages, size, encrypted) ==
    [objects |-> objects, pages |-> pages, size |-> size, encrypted |-> encrypted]

MCBases == {File(1..2, {2}, 3, FALSE), File(1..3, {2}, 2, FALSE), File({2}, {2}, 4, FALSE),
            File(1..2, {2}, 3, TRUE)}
=============================================================================
