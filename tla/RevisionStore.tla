---------------------------- MODULE RevisionStore ----------------------------
(***************************************************************************)
(* What incremental editing promises to a caller of oxidize-pdf, with no   *)
(* file in sight: a document is a map from object numbers to definitions,  *)
(* one transaction at a time stages changes to it, reserves numbers that   *)
(* were never used, and either applies everything it staged in one step or *)
(* leaves no trace.                                                        *)
(***************************************************************************)
CONSTANTS Numbers,      \* object numbers
          Definitions,  \* what a number can stand for
          None          \* a number that stands for nothing yet

VARIABLES
    doc,        \* [Numbers -> Definitions \cup {None}]
    used,       \* numbers that ever stood for something
    reserved,   \* fresh numbers handed out by the open transaction
    staged,     \* [Numbers -> Definitions \cup {None}]: its changes
    active      \* whether a transaction is open

Nothing == [n \in Numbers |-> None]

Closed == active' = FALSE /\ reserved' = {} /\ staged' = Nothing

Init ==
    /\ doc \in [Numbers -> Definitions \cup {None}]
    /\ used = {n \in Numbers : doc[n] # None}
    /\ reserved = {} /\ staged = Nothing /\ active = FALSE

\* Changes to numbers in use may be decided as the transaction opens.
Begin ==
    /\ ~active /\ active' = TRUE
    /\ \A n \in Numbers : staged'[n] # None => staged'[n] \in Definitions /\ n \in used
    /\ staged' = [n \in Numbers |-> staged'[n]]
    /\ UNCHANGED <<doc, used, reserved>>

Reserve(n) ==
    /\ active /\ n \notin used \cup reserved
    /\ reserved' = reserved \cup {n}
    /\ UNCHANGED <<doc, used, staged, active>>

\* Only a number that stands for something, or a reserved one, is redefined.
Stage(n) ==
    /\ active /\ n \in used \cup reserved
    /\ staged'[n] \in Definitions
    /\ staged' = [staged EXCEPT ![n] = staged'[n]]
    /\ UNCHANGED <<doc, used, reserved, active>>

\* All staged changes become visible together, and with them at most one fresh
\* number spent on the file's own bookkeeping.
Commit(own) ==
    /\ active
    /\ \A n \in own : doc'[n] \in Definitions
    /\ doc' = [n \in Numbers |-> IF n \in own THEN doc'[n]
                               ELSE IF staged[n] # None THEN staged[n] ELSE doc[n]]
    /\ used' = used \cup own \cup {n \in Numbers : staged[n] # None}
    /\ Closed

Bookkeeping == {{}} \cup {{n} : n \in Numbers \ (used \cup reserved)}

Abandon == active /\ Closed /\ UNCHANGED <<doc, used>>

Next ==
    \/ Begin \/ Abandon
    \/ \E n \in Numbers : Reserve(n) \/ Stage(n)
    \/ \E own \in Bookkeeping : Commit(own)

Spec == Init /\ [][Next]_<<doc, used, reserved, staged, active>>
=============================================================================
