--------------------------- MODULE MCWriterQueue ---------------------------
(***************************************************************************)
(* TLC instance of WriterQueue. The drop counter is the only unbounded     *)
(* part of the state: MaxDropped bounds it.                                *)
(***************************************************************************)
EXTENDS WriterQueue

CONSTANT MaxDropped

MCEvent == [type : {"FILE_OPEN", "PROCESS_EXEC"}]

MCNext ==
    \/ \E e \in Event : Refuse(e)
    \/ \E e \in Event : dropped < MaxDropped /\ Drop(e)
    \/ \E e \in Event : Store(e)
    \/ Stop
    \/ WriterSpuriousWake
    \/ WriterStep

MCSpec == Init /\ [][MCNext]_vars
MCFairSpec == MCSpec /\ WF_vars(WriterStep)
=============================================================================
