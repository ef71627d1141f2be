---------------------------- MODULE MCVaFrontend ----------------------------
(* VaFrontend for TLC: one bound on the ids per question, so that a behaviour *)
(* has many contexts or many objects and never both.                          *)
EXTENDS VaFrontend

MCProfiles == {"VP9Profile0", "VP9Profile2", "H264High"}
MCVp9 == {"VP9Profile0", "VP9Profile2"}

Client(g, c, s, b, f, profiles, sizes) ==
    [config |-> g, context |-> c, surface |-> s, buffer |-> b, fault |-> f,
     profiles |-> profiles, sizes |-> sizes]

MCClients ==
    {Client(1, 3, 1, 0, 0, {"VP9Profile0"}, {1}),      \* contexts come and go
     Client(1, 2, 2, 0, 0, {"VP9Profile0"}, {1}),      \* two reference surfaces
     Client(1, 2, 1, 0, 0, {"VP9Profile0"}, {1, 2}),   \* the resolution changes
     Client(2, 2, 1, 0, 1, MCProfiles, {1}),           \* streams of two kinds
     Client(2, 0, 2, 4, 1, {"H264High"}, {1})}         \* surfaces and images
=============================================================================
