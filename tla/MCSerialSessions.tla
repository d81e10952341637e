-------------------------- MODULE MCSerialSessions --------------------------
(* One CPU, two flows of one pool address and remote, two ports.           *)
EXTENDS SerialSessions

CONSTANTS c1, f1, f2, ext, rem

MCExternalOf == [f \in Flows |-> ext]
MCRemoteOf == [f \in Flows |-> rem]
=============================================================================
