------------------------------ MODULE MCEngine ------------------------------
EXTENDS Engine, MCMsgSerialize
CONSTANTS o, f, thA, thB, net, cw, cd, cm, cf, dm, dr, df, dx, idA, idB, idC, idD

MCIdOf == (cw :> idA) @@ (cd :> idB) @@ (cm :> idC) @@ (cf :> idD)

(* A member delegate with an error handler, its peer and a free one        *)
(* without, and one that has been moved from.                              *)
MCMade ==
    (dm :> SetErrorHandler(Wire(MemberRemoteBindShared(o, f, idC), cm)))
    @@ (dr :> Wire(MemberRemoteBindShared(o, f, idC), cm))
    @@ (df :> Wire(FreeRemoteBind(f, idD), cf))
    @@ (dx :> FunctionRemoteMoved(SetErrorHandler(Wire(FunctionRemoteBind(f, idD), cf))))

MCDirect == (thA :> {cd, dm, df, dx}) @@ (thB :> {cd})

MCScript ==
    <<<<"initialize">>, <<"register", cd>>, <<"register", dr>>, <<"register", df>>, <<"start">>, <<"stop">>>>

ASSUME MCConstants == StreamsAreOwn /\ NumbersSuffice

(* Channels carry values whole: what is in the air will be read as it was  *)
(* written, whatever its type, within the limits the serializer has, and a *)
(* message that was cut short never passes for a whole one                 *)
(* (msg_serialize.h, which Remote takes for granted).                      *)
SentIsRead == air # {} => SerializerExact
=============================================================================
