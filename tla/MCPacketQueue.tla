--------------------------- MODULE MCPacketQueue ----------------------------
(***************************************************************************)
(* Instances of PacketQueue for TLC.  Each opcode has one packet but move, *)
(* which has two: CMSG_CHAR_ENUM and CMSG_PLAYER_LOGIN, CMSG_WHO, the      *)
(* movement packets, CMSG_CANCEL_TRADE, MSG_MOVE_WORLDPORT_ACK and one     *)
(* that a client may not send.                                             *)
(***************************************************************************)
EXTENDS PacketQueue, TLC

CONSTANTS enum, login, who, move, trade, ack, bad, enum1, login1, who1, move1, move2, trade1, ack1, bad1, Limited

MCOpcodeOf == [p \in Packets |-> CASE p = enum1            -> enum
                                   [] p = login1           -> login
                                   [] p = who1             -> who
                                   [] p \in {move1, move2} -> move
                                   [] p = trade1           -> trade
                                   [] p = ack1             -> ack
                                   [] p = bad1             -> bad]

MCStatus == (enum :> "AUTHED" @@ login :> "AUTHED" @@ who :> "LOGGEDIN" @@ move :> "LOGGEDIN"
                @@ trade :> "LOGGEDIN_OR_RECENTLY_LOGGOUT" @@ ack :> "TRANSFER" @@ bad :> "NEVER")

MCPlace == (enum :> "THREADUNSAFE" @@ login :> "THREADUNSAFE" @@ who :> "THREADUNSAFE"
                @@ move :> "THREADSAFE" @@ trade :> "THREADUNSAFE" @@ ack :> "THREADUNSAFE"
                @@ bad :> "INPLACE")

\* World::InitPacketThrottling: one per second for the opcodes it names.
MCPerSecond == [o \in Opcodes |-> IF o \in Limited THEN 1 ELSE 0]
=============================================================================
