------------------------- MODULE MCServerConnection -------------------------
(***************************************************************************)
(* A peer that sends three frames, among them the smallest and the largest *)
(* legal one, or sends a wrong or a too large header.                      *)
(***************************************************************************)
EXTENDS ServerConnection

Frame(m, b, v) == [metadata |-> m, body |-> b, valid |-> v]

MCFrames == { <<Frame(0, 0, TRUE), Frame(1, 2, TRUE), Frame(0, 1, TRUE)>>,
              <<Frame(1, 2, TRUE), Frame(0, 3, TRUE)>>,
              <<Frame(0, 0, FALSE)>> }

\* The second and third answers together exceed a batch.
MCAnswerSize == <<1, 1, 2>>
=============================================================================
