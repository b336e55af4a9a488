---------------------------- MODULE MCSdpSession ----------------------------
(* Two sessions with audio and video: what each may send, how its payload  *)
(* types are numbered, and the options under which they meet.              *)
EXTENDS SdpSession

Both == {"send", "recv"}
MCLocalDir == [p \in Peers |-> [k \in Kinds |-> IF p = "b" /\ k = "video" THEN {"recv"} ELSE Both]]
MCPt == [a |-> [audio |-> 96, video |-> 97], b |-> [audio |-> 97, video |-> 96]]
MCNewDirs == {{"send"}, Both}

Option(type, bundle, ice, path, adds, rounds, changes, ops) ==
    [type |-> type, bundle |-> bundle, ice |-> ice, path |-> path, requireMux |-> ice,
     adds |-> adds, offers |-> rounds, updates |-> changes, ops |-> ops]
Crossing == [a |-> <<"audio", "video">>, b |-> <<"video">>]
OneSided == [a |-> <<"audio", "audio">>, b |-> <<"video">>]
Plain == [a |-> <<"audio">>, b |-> <<"video">>]
Foreign == [a |-> <<"video", "audio">>, b |-> <<"audio">>]
Late == [a |-> <<"audio", "video">>, b |-> <<"audio">>]

MCOptions ==
    {Option("DtlsSrtp", "MaxCompat", FALSE, "clean", Crossing, 4, 0, {}),
     Option("DtlsSrtp", "MaxCompat", FALSE, "legacy", Plain, 4, 0, {}),
     Option("DtlsSrtp", "MaxBundle", TRUE, "clean", Plain, 4, 0, {}),
     Option("SdesSrtp", "MaxCompat", FALSE, "legacy", Plain, 4, 1, {"Dir"}),
     Option("SdesSrtp", "MaxBundle", FALSE, "clean", OneSided, 5, 1, {"Dir"}),
     Option("Rtp", "MaxCompat", TRUE, "clean", OneSided, 4, 1, {"Remove"}),
     Option("Rtp", "MaxCompat", FALSE, "proto", Foreign, 5, 0, {}),
     Option("SdesSrtp", "MaxCompat", FALSE, "suite", Late, 5, 0, {})}
=============================================================================
