------------------------------ MODULE MCHandoffs ------------------------------
(***************************************************************************)
(* Small instances of the parts of a handoff, the tool that sends, the     *)
(* stream that delivers and what is made of a packet, each on its own:     *)
(* what the manager awaits of the queue is any acknowledgement there is.   *)
(***************************************************************************)
EXTENDS HandoffDelivery, HandoffManager, HandoffPackets

CONSTANT Parts

VARIABLE part

handoffVars == <<part, vars, hmVars, asked>>

\* Packet ids are interchangeable, and so are sessions and calls of send.
Symmetry == Permutations(Packets) \cup Permutations(Sessions)

MCPacketTools == <<"a", "b">>

HandoffsInit == part \in Parts /\ Init /\ HmInit /\ QuestionInit

HandoffsNext == /\ UNCHANGED part
                /\ \/ part = "delivery" /\ Next /\ UNCHANGED <<hmVars, asked>>
                   \/ part = "manager" /\ HmNext /\ UNCHANGED <<vars, asked>>
                   \/ part = "packets" /\ PacketsNext /\ UNCHANGED <<vars, hmVars>>

HandoffsSpec == HandoffsInit /\ [][HandoffsNext]_handoffVars

(* The queue and its sessions are typed, the history of the sender tells what *)
(* its calls did, and packets reach who they should as they were, or hidden.   *)
HandoffsConsistent == TypeOK /\ HandoffHistorySound /\ PacketsSound
=============================================================================
