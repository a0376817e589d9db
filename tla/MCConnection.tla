---------------------------- MODULE MCConnection ----------------------------
(* The application of the client sends one frame, that of the server none. *)
(* The flags that the constructors leave open have any value.              *)
EXTENDS Connection

MCMaxData == [e \in Ends |-> IF e = "clt" THEN 1 ELSE 0]

MCStarts == [Ends -> [flush : BOOLEAN, closeLater : BOOLEAN]]
=============================================================================
